---------------------------- MODULE Spec2Model ----------------------------
(***************************************************************************)
(* Identity mapper of the NFSv4.1 client daemon (daemon/idmap.c): the      *)
(* generic cache (cache_insert, cache_lookup), the directory query         *)
(* (idmap_filter, idmap_query_attrs), the user and group lookups           *)
(* (idmap_lookup_user, idmap_lookup_group) and the six public operations,  *)
(* as built without NFS41_DRIVER_FEATURE_IDMAPPER_CYGWIN (the LDAP         *)
(* backend), called with a context that nfs41_idmap_create returned.       *)
(*                                                                         *)
(* C strings are sequences of one-character strings; a PCHAR* value list   *)
(* returned by ldap_get_valuesA is a sequence of C strings, the empty      *)
(* sequence standing for NULL.                                             *)
(***************************************************************************)
EXTENDS Integers, Sequences, FiniteSets, TLC

(***************************************************************************)
(* Program constants.                                                      *)
(***************************************************************************)
FILTER_LEN == 1024
VAL_LEN == 257

CLASS_USER == 0
CLASS_GROUP == 1

ATTR_USER_NAME == 0
ATTR_GROUP_NAME == 1
ATTR_PRINCIPAL == 2
ATTR_UID == 3
ATTR_GID == 4
NUM_ATTRIBUTES == 5

NO_ERROR == 0
ERROR_NOT_ENOUGH_MEMORY == 8
ERROR_INVALID_PARAMETER == 87
ERROR_BUFFER_OVERFLOW == 111
ERROR_MORE_DATA == 234
ERROR_TIMEOUT == 1460
ERROR_NOT_FOUND == 1168
ERROR_BAD_NET_RESP == 58

LDAP_SUCCESS == 0
LDAP_TIMELIMIT_EXCEEDED == 3
LDAP_SIZELIMIT_EXCEEDED == 4
LDAP_NO_SUCH_ATTRIBUTE == 16
LDAP_SERVER_DOWN == 81
LDAP_NO_RESULTS_RETURNED == 94

ERANGE == 34

(***************************************************************************)
(* 32-bit values.  A UINT (uid_t, gid_t, the result of strtoul) is held as *)
(* the int with the same 32 bits: 0 .. INT_MAX stand for themselves and    *)
(* 2^31 .. 2^32-1 are held as -2^31 .. -1, so ULONG_MAX is held as -1 and  *)
(* the cast (int)x is the identity.                                        *)
(***************************************************************************)
Half == 2^16
INT_MAX == Half * (2^15 - 1) + (Half - 1)
INT_MIN == (0 - INT_MAX) - 1
ULONG_MAX == 0 - 1

\* the UINT with high 16 bits hi and low 16 bits lo
FromHalves(hi, lo) ==
    IF hi >= 2^15 THEN (hi - Half) * Half + lo ELSE hi * Half + lo

\* the unsigned negation strtoul applies for a leading '-'
NegUInt(v) == IF v = INT_MIN THEN v ELSE 0 - v

\* a - b in int arithmetic, wrapped to 32 bits where it overflows
SubInt32(a, b) ==
    IF (a >= 0) = (b >= 0) THEN a - b
    ELSE IF a >= 0
    THEN LET nb == 0 - (b + 1)
         IN  IF a <= (INT_MAX - nb) - 1 THEN a + nb + 1
             ELSE ((a - INT_MAX) - 1) + (nb - INT_MAX)
    ELSE LET na == 0 - (a + 1)
         IN  IF b <= INT_MAX - na THEN (0 - (na + b)) - 1
             ELSE (INT_MAX - na) + ((INT_MAX - b) + 1)

(***************************************************************************)
(* Bounds of the model.                                                    *)
(***************************************************************************)
MaxTime == 1       \* the clock runs 0..MaxTime
MaxEntries == 2    \* entries calloc can provide before the heap is exhausted
TTL == 1           \* the positive cache_ttl the model is run with

(***************************************************************************)
(* C strings.                                                              *)
(***************************************************************************)
Digits == <<"0", "1", "2", "3", "4", "5", "6", "7", "8", "9">>

DigitChars == {Digits[i] : i \in 1..10}

DigitVal(c) == (CHOOSE i \in 1..10 : Digits[i] = c) - 1

isspace(c) == c \in {" ", "\t", "\n", "\r"}

\* a string of n characters c
Rep(c, n) == [i \in 1..n |-> c]

\* strcmp: zero exactly when the strings are equal (only that is used)
strcmp(a, b) == IF a = b THEN 0 ELSE 1

\* the %u conversion of printf of the UINT n
RECURSIVE FormatUInt(_)
FormatUInt(n) ==
    IF n < 0
    THEN \* n + 2^32 = 10 * (429496729 + a) + (6 + b) where n = 10 * a + b
         LET a == n \div 10
             b == n % 10
         IN  FormatUInt((INT_MAX \div 5) + a + ((6 + b) \div 10))
             \o <<Digits[((6 + b) % 10) + 1]>>
    ELSE IF n < 10 THEN <<Digits[n + 1]>>
    ELSE FormatUInt(n \div 10) \o <<Digits[(n % 10) + 1]>>

StringCchCopyA_truncating(dst, cchDest, src) ==
    [failed |-> FALSE,
     dst |-> IF cchDest = 0 THEN dst
             ELSE IF Len(src) >= cchDest THEN SubSeq(src, 1, cchDest - 1)
             ELSE src]

\* StringCchCopyA(dst, cchDest, src): fails when cchDest is 0 or src does not
\* fit with its terminator; on overflow dst holds the truncated string
StringCchCopyA(dst, cchDest, src) ==
    IF cchDest = 0 THEN [failed |-> TRUE, dst |-> dst]
    ELSE IF Len(src) >= cchDest
         THEN [failed |-> TRUE, dst |-> SubSeq(src, 1, cchDest - 1)]
         ELSE [failed |-> FALSE, dst |-> src]

(***************************************************************************)
(* parse_uint: strtoul(str, &endp, 10) then the two checks.                *)
(***************************************************************************)
\* number of leading characters of s (from position i) that satisfy isspace
RECURSIVE SkipSpace(_, _)
SkipSpace(s, i) ==
    IF i <= Len(s) /\ isspace(s[i]) THEN SkipSpace(s, i + 1) ELSE i

\* digits from position i, accumulated in 32 bits as two 16-bit halves:
\* [hi, lo, pos, over]; over is set once the value exceeds 2^32-1
RECURSIVE ScanDigits(_, _, _, _, _)
ScanDigits(s, i, hi, lo, over) ==
    IF i <= Len(s) /\ s[i] \in DigitChars
    THEN LET lo2 == lo * 10 + DigitVal(s[i])
             hi2 == hi * 10 + (lo2 \div Half)
         IN  IF over \/ hi2 >= Half
             THEN ScanDigits(s, i + 1, Half - 1, Half - 1, TRUE)
             ELSE ScanDigits(s, i + 1, hi2, lo2 % Half, FALSE)
    ELSE [hi |-> hi, lo |-> lo, pos |-> i, over |-> over]

\* strtoul, base 10: [val, endp (characters consumed), erange]
strtoul(s) ==
    LET i0 == SkipSpace(s, 1)
        signed == i0 <= Len(s) /\ s[i0] \in {"+", "-"}
        neg == signed /\ s[i0] = "-"
        i1 == IF signed THEN i0 + 1 ELSE i0
        d == ScanDigits(s, i1, 0, 0, FALSE)
        v == FromHalves(d.hi, d.lo)
    IN  IF d.pos = i1
        THEN [val |-> 0, endp |-> 0, erange |-> FALSE]
        ELSE IF d.over
        THEN [val |-> ULONG_MAX, endp |-> d.pos - 1, erange |-> TRUE]
        ELSE [val |-> IF neg THEN NegUInt(v) ELSE v,
              endp |-> d.pos - 1, erange |-> FALSE]

\* parse_uint(str, id_out) with the thread's errno e: [ok, id, errno]
parse_uint(str, e) ==
    LET r == strtoul(str)
        e2 == IF r.erange THEN ERANGE ELSE e
    IN  IF r.endp < Len(str) THEN [ok |-> FALSE, id |-> 0, errno |-> e2]
        ELSE IF r.val = ULONG_MAX /\ e2 = ERANGE
        THEN [ok |-> FALSE, id |-> 0, errno |-> e2]
        ELSE [ok |-> TRUE, id |-> r.val, errno |-> e2]


(***************************************************************************)
(* Configuration: g_options[], config_parse_pair, config_defaults,         *)
(* config_find_option, config_load, config_init.                           *)
(***************************************************************************)
NAME_LEN == 32
NFS41_HOSTNAME_LEN == 64

\* the option table: key, default, type, the field of struct idmap_config
\* (with its index for classes[] and attributes[]), max_len
Option(key, def, type, field, index, max_len) ==
    [key |-> key, def |-> def, type |-> type, field |-> field,
     index |-> index, max_len |-> max_len]

g_options == <<
    Option(<<"l", "d", "a", "p", "_", "h", "o", "s", "t", "n", "a", "m", "e">>, <<"l", "o", "c", "a", "l", "h", "o", "s", "t">>, "TYPE_STR", "hostname", 0, NFS41_HOSTNAME_LEN + 1),
    Option(<<"l", "d", "a", "p", "_", "p", "o", "r", "t">>, <<"3", "8", "9">>, "TYPE_INT", "port", 0, 0),
    Option(<<"l", "d", "a", "p", "_", "v", "e", "r", "s", "i", "o", "n">>, <<"3">>, "TYPE_INT", "version", 0, 0),
    Option(<<"l", "d", "a", "p", "_", "t", "i", "m", "e", "o", "u", "t">>, <<"0">>, "TYPE_INT", "timeout", 0, 0),
    Option(<<"l", "d", "a", "p", "_", "b", "a", "s", "e">>, <<"c", "n", "=", "l", "o", "c", "a", "l", "h", "o", "s", "t">>, "TYPE_STR", "base", 0, VAL_LEN),
    Option(<<"l", "d", "a", "p", "_", "c", "l", "a", "s", "s", "_", "u", "s", "e", "r", "s">>, <<"u", "s", "e", "r">>, "TYPE_STR", "classes", CLASS_USER, NAME_LEN),
    Option(<<"l", "d", "a", "p", "_", "c", "l", "a", "s", "s", "_", "g", "r", "o", "u", "p", "s">>, <<"g", "r", "o", "u", "p">>, "TYPE_STR", "classes", CLASS_GROUP, NAME_LEN),
    Option(<<"l", "d", "a", "p", "_", "a", "t", "t", "r", "_", "u", "s", "e", "r", "n", "a", "m", "e">>, <<"c", "n">>, "TYPE_STR", "attributes", ATTR_USER_NAME, NAME_LEN),
    Option(<<"l", "d", "a", "p", "_", "a", "t", "t", "r", "_", "g", "r", "o", "u", "p", "n", "a", "m", "e">>, <<"c", "n">>, "TYPE_STR", "attributes", ATTR_GROUP_NAME, NAME_LEN),
    Option(<<"l", "d", "a", "p", "_", "a", "t", "t", "r", "_", "g", "s", "s", "A", "u", "t", "h", "N", "a", "m", "e">>, <<"g", "s", "s", "A", "u", "t", "h", "N", "a", "m", "e">>, "TYPE_STR", "attributes", ATTR_PRINCIPAL, NAME_LEN),
    Option(<<"l", "d", "a", "p", "_", "a", "t", "t", "r", "_", "u", "i", "d", "N", "u", "m", "b", "e", "r">>, <<"u", "i", "d", "N", "u", "m", "b", "e", "r">>, "TYPE_STR", "attributes", ATTR_UID, NAME_LEN),
    Option(<<"l", "d", "a", "p", "_", "a", "t", "t", "r", "_", "g", "i", "d", "N", "u", "m", "b", "e", "r">>, <<"g", "i", "d", "N", "u", "m", "b", "e", "r">>, "TYPE_STR", "attributes", ATTR_GID, NAME_LEN),
    Option(<<"c", "a", "c", "h", "e", "_", "t", "t", "l">>, <<"6", "0", "0", "0">>, "TYPE_INT", "cache_ttl", 0, 0) >>

\* struct idmap_config as calloc leaves it
ZeroConfig ==
    [hostname |-> <<>>, port |-> 0, version |-> 0, timeout |-> 0,
     base |-> <<>>,
     classes |-> [k \in {CLASS_USER, CLASS_GROUP} |-> <<>>],
     attributes |-> [a \in 0..(NUM_ATTRIBUTES - 1) |-> <<>>],
     cache_ttl |-> 0]

\* the field (char*)config + option->offset
GetField(cfg, option) ==
    CASE option.field = "hostname" -> cfg.hostname
      [] option.field = "port" -> cfg.port
      [] option.field = "version" -> cfg.version
      [] option.field = "timeout" -> cfg.timeout
      [] option.field = "base" -> cfg.base
      [] option.field = "classes" -> cfg.classes[option.index]
      [] option.field = "attributes" -> cfg.attributes[option.index]
      [] OTHER -> cfg.cache_ttl

SetField(cfg, option, v) ==
    CASE option.field = "hostname" -> [cfg EXCEPT !.hostname = v]
      [] option.field = "port" -> [cfg EXCEPT !.port = v]
      [] option.field = "version" -> [cfg EXCEPT !.version = v]
      [] option.field = "timeout" -> [cfg EXCEPT !.timeout = v]
      [] option.field = "base" -> [cfg EXCEPT !.base = v]
      [] option.field = "classes" -> [cfg EXCEPT !.classes[option.index] = v]
      [] option.field = "attributes" ->
            [cfg EXCEPT !.attributes[option.index] = v]
      [] OTHER -> [cfg EXCEPT !.cache_ttl = v]

\* strchr from position i: the position of the first c at or after i, 0 (NULL)
\* when there is none
strchr(s, i, c) ==
    LET at == {j \in i..Len(s) : s[j] = c}
    IN  IF at = {} THEN 0 ELSE CHOOSE j \in at : \A k \in at : j <= k

TrimRight_none(s) == s

\* s without its trailing isspace characters
RECURSIVE TrimRight(_)
TrimRight(s) ==
    IF s # <<>> /\ isspace(s[Len(s)])
    THEN TrimRight(SubSeq(s, 1, Len(s) - 1)) ELSE s

\* config_parse_pair(line, pair): [status, key, value]. The line is cut at
\* its first '#'; k0 is the start of the key, eq the position of '=', p the
\* start of the value, q the closing quote
config_parse_pair(line) ==
    LET fail == [status |-> ERROR_INVALID_PARAMETER, key |-> <<>>, value |-> <<>>]
        Quoted(l, key, p, q) ==
            IF q = 0 THEN fail
            ELSE [status |-> NO_ERROR, key |-> key,
                  value |-> SubSeq(l, p + 1, q - 1)]
        Value(l, key, p) ==
            IF p > Len(l) THEN fail
            ELSE IF l[p] = "\"" THEN Quoted(l, key, p, strchr(l, p + 1, "\""))
            ELSE [status |-> NO_ERROR, key |-> key,
                  value |-> TrimRight(SubSeq(l, p, Len(l)))]
        Key(l, key, eq) ==
            IF key = <<>> THEN fail ELSE Value(l, key, SkipSpace(l, eq + 1))
        Equals(l, k0, eq) ==
            IF eq = 0 THEN fail
            ELSE Key(l, TrimRight(SubSeq(l, k0, eq - 1)), eq)
        Start(l, k0) == Equals(l, k0, strchr(l, k0, "="))
        Cut(l) == Start(l, SkipSpace(l, 1))
        Comment(hash) ==
            Cut(IF hash # 0 THEN SubSeq(line, 1, hash - 1) ELSE line)
    IN  Comment(strchr(line, 1, "#"))

\* _stricmp: zero exactly when the strings are equal once every upper-case
\* letter is folded to lower case
stricmp(a, b) ==
    LET upper ==
            <<"A", "B", "C", "D", "E", "F", "G", "H", "I", "J", "K", "L", "M", "N",
             "O", "P", "Q", "R", "S", "T", "U", "V", "W", "X", "Y", "Z">>
        lower ==
            <<"a", "b", "c", "d", "e", "f", "g", "h", "i", "j", "k", "l", "m", "n",
             "o", "p", "q", "r", "s", "t", "u", "v", "w", "x", "y", "z">>
        tolower(c) ==
            IF \E i \in 1..26 : upper[i] = c
            THEN lower[CHOOSE i \in 1..26 : upper[i] = c] ELSE c
    IN  IF Len(a) = Len(b) /\ \A i \in 1..Len(a) : tolower(a[i]) = tolower(b[i])
        THEN 0 ELSE 1

\* config_find_option: the index in g_options[] of the first option whose
\* key matches, 0 for ERROR_NOT_FOUND
config_find_option(key) ==
    LET hits == {i \in 1..Len(g_options) : stricmp(key, g_options[i].key) = 0}
    IN  IF hits = {} THEN 0 ELSE CHOOSE i \in hits : \A j \in hits : i <= j

\* StringCchCopyNA(dst, cchDest, src, cchToCopy)
StringCchCopyNA(dst, cchDest, src, cchToCopy) ==
    StringCchCopyA(dst, cchDest,
        SubSeq(src, 1, IF cchToCopy < Len(src) THEN cchToCopy ELSE Len(src)))

\* the assignment of one value to the field of an option, as config_defaults
\* and config_load do it: [status, config, errno]
AssignOption(cfg, option, value, e) ==
    LET AsInt(p) ==
            IF p.ok
            THEN [status |-> NO_ERROR, config |-> SetField(cfg, option, p.id),
                  errno |-> p.errno]
            ELSE [status |-> ERROR_INVALID_PARAMETER, config |-> cfg,
                  errno |-> p.errno]
        AsStr(c) ==
            [status |-> IF c.failed THEN ERROR_BUFFER_OVERFLOW ELSE NO_ERROR,
             config |-> SetField(cfg, option, c.dst), errno |-> e]
    IN  IF option.type = "TYPE_INT" THEN AsInt(parse_uint(value, e))
        ELSE AsStr(StringCchCopyNA(GetField(cfg, option), option.max_len,
                                 value, Len(value)))

\* config_defaults from option i on: [status, config, errno]
RECURSIVE DefaultsFrom(_, _, _)
DefaultsFrom(cfg, e, i) ==
    LET Assigned(a) ==
            IF a.status # NO_ERROR THEN a
            ELSE DefaultsFrom(a.config, a.errno, i + 1)
    IN  IF i > Len(g_options)
        THEN [status |-> NO_ERROR, config |-> cfg, errno |-> e]
        ELSE Assigned(AssignOption(cfg, g_options[i], g_options[i].def, e))

config_defaults_none(cfg, e) ==
    [status |-> NO_ERROR, config |-> cfg, errno |-> e]

\* config_defaults(config): [status, config, errno]
config_defaults(cfg, e) == DefaultsFrom(cfg, e, 1)

\* config_load: is the line skipped as blank or comment
SkippedLine(line) ==
    LET First(p) == p > Len(line) \/ line[p] = "#"
    IN  First(SkipSpace(line, 1))

\* config_load, the body of the loop for one line read by fgets:
\* [status, config, errno]
config_load_line(cfg, e, line) ==
    LET Found(pair, o) ==
            IF o = 0
            THEN [status |-> ERROR_INVALID_PARAMETER, config |-> cfg,
                  errno |-> e]
            ELSE AssignOption(cfg, g_options[o], pair.value, e)
        Parsed(pair) ==
            IF pair.status # NO_ERROR
            THEN [status |-> pair.status, config |-> cfg, errno |-> e]
            ELSE Found(pair, config_find_option(pair.key))
    IN  IF SkippedLine(line)
        THEN [status |-> NO_ERROR, config |-> cfg, errno |-> e]
        ELSE Parsed(config_parse_pair(line))

(***************************************************************************)
(* State.                                                                  *)
(***************************************************************************)
Threads == {1, 2}

VARIABLES
    config,   \* struct idmap_config (the fields the lookups read)
    now,      \* UTIL_GETRELTIME(), seconds
    cache,    \* cache[klass]: struct idmap_cache = [head, lock]
    th,       \* th[t]: the facade call running on thread t
    ctx       \* struct idmap_context and the nfs41_idmap_create that built it

vars == <<config, now, cache, th, ctx>>

Str_user == <<"u", "s", "e", "r">>
Str_group == <<"g", "r", "o", "u", "p">>
Str_cn == <<"c", "n">>
Str_gssAuthName == <<"g", "s", "s", "A", "u", "t", "h", "N", "a", "m", "e">>
Str_uidNumber == <<"u", "i", "d", "N", "u", "m", "b", "e", "r">>
Str_gidNumber == <<"g", "i", "d", "N", "u", "m", "b", "e", "r">>

\* the defaults of g_options[] for the schema names, and a cache_ttl
DefaultConfig(ttl) ==
    [classes |-> [k \in {CLASS_USER, CLASS_GROUP} |->
                    IF k = CLASS_USER THEN Str_user ELSE Str_group],
     attributes |-> [a \in 0..(NUM_ATTRIBUTES - 1) |->
                    CASE a = ATTR_USER_NAME -> Str_cn
                      [] a = ATTR_GROUP_NAME -> Str_cn
                      [] a = ATTR_PRINCIPAL -> Str_gssAuthName
                      [] a = ATTR_UID -> Str_uidNumber
                      [] OTHER -> Str_gidNumber],
     cache_ttl |-> ttl]

\* no configuration file at CONFIG_FILENAME
NoFile == [exists |-> FALSE, lines |-> <<>>]

\* the context nfs41_idmap_create handed to its caller: allocated, with the
\* connection ldap_init opened, the file read to its end
ContextCreated(file) ==
    [pc |-> "returned", file |-> file, line |-> Len(file.lines),
     status |-> NO_ERROR, context |-> "allocated", ldap |-> "open",
     context_out |-> TRUE, errno |-> 0, raw |-> LDAP_SUCCESS]

\* SRWLOCK: the threads holding it shared and the threads holding it exclusive
SRWLOCK_INIT == [shared |-> {}, exclusive |-> {}]

\* cache_init: an empty list and an initialized lock
cache_init == [head |-> <<>>, lock |-> SRWLOCK_INIT]

AcquireSRWLockShared_always(lock, t) == TRUE

\* AcquireSRWLockShared can return when no thread holds the lock exclusive
AcquireSRWLockShared(lock, t) == lock.exclusive = {}

AcquireSRWLockExclusive_free(lock, t) == TRUE

\* AcquireSRWLockExclusive can return when no thread holds the lock at all
AcquireSRWLockExclusive(lock, t) == lock.exclusive = {} /\ lock.shared = {}

(***************************************************************************)
(* Entries: struct idmap_user, struct idmap_group.                         *)
(***************************************************************************)
\* the local struct of a facade function before anything is written to it
\* (stack memory; no path reads it before it is written)
Garbage == <<"?">>

UninitEntry(klass) ==
    IF klass = CLASS_USER
    THEN [username |-> Garbage, principal |-> Garbage,
          uid |-> ULONG_MAX, gid |-> ULONG_MAX, last_updated |-> 0]
    ELSE [name |-> Garbage, gid |-> ULONG_MAX, last_updated |-> 0]

\* user_cache_alloc / group_cache_alloc: calloc gives a zeroed entry
entry_alloc(klass) ==
    IF klass = CLASS_USER
    THEN [username |-> <<>>, principal |-> <<>>,
          uid |-> 0, gid |-> 0, last_updated |-> 0]
    ELSE [name |-> <<>>, gid |-> 0, last_updated |-> 0]

\* first half of user_cache_copy / group_cache_copy: the string fields
entry_copy_strings(klass, dst, src) ==
    IF klass = CLASS_USER
    THEN [dst EXCEPT
            !.username = StringCchCopyA(@, VAL_LEN, src.username).dst,
            !.principal = StringCchCopyA(@, VAL_LEN, src.principal).dst]
    ELSE [dst EXCEPT !.name = StringCchCopyA(@, VAL_LEN, src.name).dst]

\* second half: the ids and the timestamp
entry_copy_scalars(klass, dst, src) ==
    IF klass = CLASS_USER
    THEN [dst EXCEPT !.uid = src.uid, !.gid = src.gid,
                     !.last_updated = src.last_updated]
    ELSE [dst EXCEPT !.gid = src.gid, !.last_updated = src.last_updated]

\* the whole entry_copy
entry_copy(klass, dst, src) ==
    entry_copy_scalars(klass, entry_copy_strings(klass, dst, src), src)

(***************************************************************************)
(* Comparators and list search.                                            *)
(***************************************************************************)
username_cmp(entry, value) == strcmp(entry.username, value)
uid_cmp_gid(entry, value) == SubInt32(value, entry.gid)

uid_cmp_miss(entry, value) == 1

uid_cmp(entry, value) == SubInt32(value, entry.uid)
principal_cmp(entry, value) == strcmp(entry.principal, value)
group_cmp(entry, value) == strcmp(entry.name, value)
gid_cmp_miss(entry, value) == 1
gid_cmp(entry, value) == SubInt32(value, entry.gid)

\* lookup->compare(entry, lookup->value), the comparator named by lookup.compare
compare(lookup, entry) ==
    CASE lookup.compare = "username_cmp" -> username_cmp(entry, lookup.value)
      [] lookup.compare = "uid_cmp" -> uid_cmp(entry, lookup.value)
      [] lookup.compare = "principal_cmp" -> principal_cmp(entry, lookup.value)
      [] lookup.compare = "group_cmp" -> group_cmp(entry, lookup.value)
      [] OTHER -> gid_cmp(entry, lookup.value)

\* list_search: position of the first entry from the head that compares
\* equal, 0 (NULL) when there is none
list_search(head, lookup) ==
    LET hits == {i \in 1..Len(head) : compare(lookup, head[i]) = 0}
    IN  IF hits = {} THEN 0 ELSE CHOOSE i \in hits : \A j \in hits : i <= j

\* list_add_head
list_add_head(head, entry) == <<entry>> \o head


(***************************************************************************)
(* The directory backend: idmap_filter and idmap_query_attrs.              *)
(***************************************************************************)
\* LdapMapErrorToWin32 on the LDAP codes the model uses
LdapMapErrorToWin32(code) ==
    CASE code = LDAP_SUCCESS -> NO_ERROR
      [] code = LDAP_TIMELIMIT_EXCEEDED -> ERROR_TIMEOUT
      [] code = LDAP_SIZELIMIT_EXCEEDED -> ERROR_MORE_DATA
      [] code = LDAP_NO_SUCH_ATTRIBUTE -> ERROR_INVALID_PARAMETER
      [] code = LDAP_SERVER_DOWN -> ERROR_BAD_NET_RESP
      [] code = LDAP_NO_RESULTS_RETURNED -> ERROR_MORE_DATA
      [] OTHER -> ERROR_INVALID_PARAMETER

\* the text StringCchPrintfA formats for the lookup
FilterText(cfg, lookup) ==
    <<"(", "&", "(", "o", "b", "j", "e", "c", "t", "C", "l", "a", "s", "s", "=">>
    \o cfg.classes[lookup.klass] \o <<")", "(">>
    \o cfg.attributes[lookup.attr] \o <<"=">>
    \o (IF lookup.type = "TYPE_INT" THEN FormatUInt(lookup.value)
        ELSE lookup.value)
    \o <<")", ")">>

idmap_filter_nocheck(cfg, lookup, filter_len) ==
    LET text == FilterText(cfg, lookup)
    IN  [status |-> NO_ERROR,
         filter |-> SubSeq(text, 1, IF Len(text) >= filter_len
                                    THEN filter_len - 1 ELSE Len(text))]

\* idmap_filter: [status, filter]
idmap_filter(cfg, lookup, filter_len) ==
    LET text == FilterText(cfg, lookup)
    IN  IF Len(text) >= filter_len
        THEN [status |-> ERROR_BUFFER_OVERFLOW,
              filter |-> SubSeq(text, 1, filter_len - 1)]
        ELSE [status |-> NO_ERROR, filter |-> text]

\* what ldap_search_stA hands back: its return code and the entries of res
SearchFailed(code) == [ldap |-> code, entries |-> <<>>]
SearchResult(entries) == [ldap |-> LDAP_SUCCESS, entries |-> entries]

NullValues == [i \in 0..(NUM_ATTRIBUTES - 1) |-> <<>>]

\* ldap_get_valuesA(ldap, entry, config->attributes[i])
ldap_get_valuesA(entry, i) == entry[i]

\* idmap_query_attrs after the filter was formatted: the search result r,
\* the first entry, the attribute loop. [status, values]
idmap_query_attrs(r, attributes, optional, len) ==
    IF r.ldap # LDAP_SUCCESS
    THEN [status |-> LdapMapErrorToWin32(r.ldap), values |-> NullValues]
    ELSE IF r.entries = <<>>
    THEN [status |-> LdapMapErrorToWin32(LDAP_NO_RESULTS_RETURNED),
          values |-> NullValues]
    ELSE
    LET entry == r.entries[1]
        missing == {i \in 0..(len - 1) :
                      /\ i \in attributes
                      /\ ldap_get_valuesA(entry, i) = <<>>
                      /\ i \notin optional}
        stop == IF missing = {} THEN len
                ELSE CHOOSE i \in missing : \A j \in missing : i <= j
        values == [i \in 0..(NUM_ATTRIBUTES - 1) |->
                      IF i \in attributes /\ i <= stop /\ i < len
                      THEN ldap_get_valuesA(entry, i) ELSE <<>>]
    IN  IF missing # {}
        THEN [status |-> LdapMapErrorToWin32(LDAP_NO_SUCH_ATTRIBUTE),
              values |-> values]
        ELSE [status |-> NO_ERROR, values |-> values]

UserAttributes == {ATTR_USER_NAME, ATTR_PRINCIPAL, ATTR_UID, ATTR_GID}
UserOptional_none == {}
UserOptional == {ATTR_PRINCIPAL}
GroupAttributes == {ATTR_GROUP_NAME, ATTR_GID}

\* idmap_lookup_user, "parse attributes": [status, rec, errno]
ParseUser(user, values, e, time) ==
    LET c1 == StringCchCopyA(user.username, VAL_LEN, values[ATTR_USER_NAME][1])
        u1 == [user EXCEPT !.username = c1.dst]
        c2 == StringCchCopyA(user.principal, VAL_LEN,
                  IF values[ATTR_PRINCIPAL] # <<>>
                  THEN values[ATTR_PRINCIPAL][1] ELSE <<>>)
        u2 == [u1 EXCEPT !.principal = c2.dst]
        p1 == parse_uint(values[ATTR_UID][1], e)
        u3 == [u2 EXCEPT !.uid = p1.id]
        p2 == parse_uint(values[ATTR_GID][1], p1.errno)
        u4 == [u3 EXCEPT !.gid = p2.id, !.last_updated = time]
    IN  IF c1.failed
        THEN [status |-> ERROR_BUFFER_OVERFLOW, rec |-> u1, errno |-> e]
        ELSE IF c2.failed
        THEN [status |-> ERROR_BUFFER_OVERFLOW, rec |-> u2, errno |-> e]
        ELSE IF ~p1.ok
        THEN [status |-> ERROR_INVALID_PARAMETER, rec |-> u2, errno |-> p1.errno]
        ELSE IF ~p2.ok
        THEN [status |-> ERROR_INVALID_PARAMETER, rec |-> u3, errno |-> p2.errno]
        ELSE [status |-> NO_ERROR, rec |-> u4, errno |-> p2.errno]

\* idmap_lookup_group, "parse attributes": [status, rec, errno]
ParseGroup(group, values, e, time) ==
    LET c1 == StringCchCopyA(group.name, VAL_LEN, values[ATTR_GROUP_NAME][1])
        g1 == [group EXCEPT !.name = c1.dst]
        p1 == parse_uint(values[ATTR_GID][1], e)
        g2 == [g1 EXCEPT !.gid = p1.id, !.last_updated = time]
    IN  IF c1.failed
        THEN [status |-> ERROR_BUFFER_OVERFLOW, rec |-> g1, errno |-> e]
        ELSE IF ~p1.ok
        THEN [status |-> ERROR_INVALID_PARAMETER, rec |-> g1, errno |-> p1.errno]
        ELSE [status |-> NO_ERROR, rec |-> g2, errno |-> p1.errno]

(***************************************************************************)
(* The six public operations: the struct idmap_lookup each one builds.     *)
(***************************************************************************)
Ops == {"name_to_uid", "name_to_ids", "uid_to_name", "principal_to_ids",
        "group_to_gid", "gid_to_group"}

MakeLookup(op, value) ==
    CASE op \in {"name_to_uid", "name_to_ids"} ->
            [attr |-> ATTR_USER_NAME, klass |-> CLASS_USER, type |-> "TYPE_STR",
             compare |-> "username_cmp", value |-> value]
      [] op = "uid_to_name" ->
            [attr |-> ATTR_UID, klass |-> CLASS_USER, type |-> "TYPE_INT",
             compare |-> "uid_cmp", value |-> value]
      [] op = "principal_to_ids" ->
            [attr |-> ATTR_PRINCIPAL, klass |-> CLASS_USER, type |-> "TYPE_STR",
             compare |-> "principal_cmp", value |-> value]
      [] op = "group_to_gid" ->
            [attr |-> ATTR_GROUP_NAME, klass |-> CLASS_GROUP, type |-> "TYPE_STR",
             compare |-> "group_cmp", value |-> value]
      [] OTHER ->
            [attr |-> ATTR_GID, klass |-> CLASS_GROUP, type |-> "TYPE_INT",
             compare |-> "gid_cmp", value |-> value]

\* the caller's output locations before the call writes them
\* (an id location is <<>> until written, then <<id>>)
NoName == <<"#">>
NoOutput == [uid |-> <<>>, gid |-> <<>>, name |-> NoName]

\* the tail of each public operation after idmap_lookup_user/_group
\* returned `status` with the entry `rec`: [status, out]
FacadeReturn(op, status, rec, len, out) ==
    IF status # NO_ERROR THEN [status |-> status, out |-> out]
    ELSE CASE op = "name_to_uid" ->
                [status |-> status, out |-> [out EXCEPT !.uid = <<rec.uid>>]]
           [] op \in {"name_to_ids", "principal_to_ids"} ->
                [status |-> status,
                 out |-> [out EXCEPT !.uid = <<rec.uid>>, !.gid = <<rec.gid>>]]
           [] op = "uid_to_name" ->
                LET c == StringCchCopyA(out.name, len, rec.username)
                IN  [status |-> IF c.failed THEN ERROR_BUFFER_OVERFLOW ELSE status,
                     out |-> [out EXCEPT !.name = c.dst]]
           [] op = "group_to_gid" ->
                [status |-> status, out |-> [out EXCEPT !.gid = <<rec.gid>>]]
           [] OTHER ->
                LET c == StringCchCopyA(out.name, len, rec.name)
                IN  [status |-> IF c.failed THEN ERROR_BUFFER_OVERFLOW ELSE status,
                     out |-> [out EXCEPT !.name = c.dst]]


(***************************************************************************)
(* The state machine.  One facade call per thread at a time; the steps of  *)
(* a call are the points where it touches the cache, its lock, the clock   *)
(* or the directory.                                                       *)
(*                                                                         *)
(* th[t] holds the call's locals (lookup, len, rec: the struct idmap_user  *)
(* or idmap_group of the public operation, status, istatus: the status of  *)
(* cache_insert, lstatus: the status idmap_lookup_user/_group returned,    *)
(* out: the caller's output locations, errno, ent: the entry found by      *)
(* list_search) and, for stating properties, what the call observed: nq    *)
(* (calls of ldap_search_stA), cached (the copy cache_lookup gave), at     *)
(* (the clock at the expiry test), fresh (its outcome), resp (the search   *)
(* result), pre (both lists when the call started), prev_rec (the entry    *)
(* the previous call of this thread returned, when that call succeeded     *)
(* and this one repeats it), kept (that entry was left in the cache under  *)
(* the key) and rt_name (the name whose uid this uid_to_name call is       *)
(* given back).                                                            *)
(***************************************************************************)
Klasses == {CLASS_USER, CLASS_GROUP}

NoLookup == MakeLookup("name_to_uid", <<>>)

IdleThread ==
    [pc |-> "idle", op |-> "none", lookup |-> NoLookup, len |-> 0,
     rec |-> UninitEntry(CLASS_USER), status |-> NO_ERROR,
     istatus |-> NO_ERROR, lstatus |-> NO_ERROR, out |-> NoOutput,
     errno |-> 0, ent |-> 0,
     nq |-> 0, cached |-> <<>>, at |-> 0, fresh |-> FALSE, resp |-> <<>>,
     pre |-> [k \in Klasses |-> <<>>],
     prev_rec |-> <<>>, kept |-> FALSE, rt_name |-> <<>>]

Heads == [k \in Klasses |-> cache[k].head]

K_user(t) == CLASS_USER

\* the cache thread t works on: context->users for lookup.klass CLASS_USER,
\* context->groups for CLASS_GROUP
K(t) == th[t].lookup.klass

\* entries allocated so far (none is freed before nfs41_idmap_free)
Allocated == Len(cache[CLASS_USER].head) + Len(cache[CLASS_GROUP].head)

\* UTIL_GETRELTIME() is the variable now, in seconds; UTIL_DIFFRELTIME is
\* the time elapsed between two of its readings
UTIL_DIFFRELTIME(t2, t1) == t2 - t1

IsFresh_le(time, last_updated, cache_ttl) ==
    UTIL_DIFFRELTIME(time, last_updated) <= cache_ttl

IsFresh_always(time, last_updated, cache_ttl) == TRUE

\* the expiry test of idmap_lookup_user and idmap_lookup_group
IsFresh(time, last_updated, cache_ttl) ==
    UTIL_DIFFRELTIME(time, last_updated) < cache_ttl

\* nfs41_idmap_<op>(context, value, ..., len) is entered on thread t
Call(t, op, value, len) ==
    LET p == th[t]
        again == /\ p.pc = "done" /\ p.op = op /\ p.lookup.value = value
                 /\ p.status = NO_ERROR
        kept == /\ again
                /\ \/ p.fresh
                   \/ /\ p.resp # <<>>
                      /\ config.cache_ttl # 0
                      /\ p.istatus = NO_ERROR
                      /\ compare(p.lookup, p.rec) = 0
        rt == /\ p.pc = "done" /\ p.op = "name_to_uid" /\ p.status = NO_ERROR
              /\ op = "uid_to_name" /\ p.out.uid = <<value>>
    IN  /\ ctx.context_out /\ ctx.context = "allocated"
        /\ th[t].pc \in {"idle", "done"}
        /\ th' = [th EXCEPT ![t] =
                    [IdleThread EXCEPT
                        !.pc = "cache_lookup", !.op = op,
                        !.lookup = MakeLookup(op, value), !.len = len,
                        !.rec = UninitEntry(MakeLookup(op, value).klass),
                        !.errno = p.errno,
                        !.pre = Heads,
                        !.prev_rec = IF again THEN <<p.rec>> ELSE <<>>,
                        !.kept = kept,
                        !.rt_name = IF rt THEN <<p.lookup.value>> ELSE <<>>]]
        /\ UNCHANGED <<config, now, cache, ctx>>

\* cache_lookup: AcquireSRWLockShared, list_search, and on a match the
\* string half of entry_copy
LookupBegin(t) ==
    LET k == K(t)
        i == list_search(cache[k].head, th[t].lookup)
    IN  /\ th[t].pc = "cache_lookup"
        /\ AcquireSRWLockShared(cache[k].lock, t)
        /\ cache' = [cache EXCEPT ![k].lock.shared = @ \cup {t}]
        /\ th' = [th EXCEPT ![t] =
                    IF i = 0
                    THEN [@ EXCEPT !.pc = "lookup_release",
                                   !.status = ERROR_NOT_FOUND, !.ent = 0]
                    ELSE [@ EXCEPT !.pc = "lookup_copy", !.ent = i,
                                   !.rec = entry_copy_strings(k, @, cache[k].head[i])]]
        /\ UNCHANGED <<config, now, ctx>>

\* cache_lookup: the rest of entry_copy, status = NO_ERROR
LookupCopy(t) ==
    LET k == K(t)
    IN  /\ th[t].pc = "lookup_copy"
        /\ th' = [th EXCEPT ![t] =
                    [@ EXCEPT !.pc = "lookup_release", !.status = NO_ERROR,
                              !.rec = entry_copy_scalars(k, @, cache[k].head[th[t].ent])]]
        /\ UNCHANGED <<config, now, cache, ctx>>

LookupRelease_keep(t) ==
    /\ th[t].pc = "lookup_release"
    /\ th' = [th EXCEPT ![t] =
                [@ EXCEPT !.pc = "expiry", !.ent = 0,
                          !.cached = IF th[t].status = NO_ERROR
                                     THEN <<th[t].rec>> ELSE <<>>]]
    /\ UNCHANGED <<config, now, cache, ctx>>

\* cache_lookup: ReleaseSRWLockShared and return
LookupRelease(t) ==
    LET k == K(t)
    IN  /\ th[t].pc = "lookup_release"
        /\ cache' = [cache EXCEPT ![k].lock.shared = @ \ {t}]
        /\ th' = [th EXCEPT ![t] =
                    [@ EXCEPT !.pc = "expiry", !.ent = 0,
                              !.cached = IF th[t].status = NO_ERROR
                                         THEN <<th[t].rec>> ELSE <<>>]]
        /\ UNCHANGED <<config, now, ctx>>

\* where idmap_lookup_user/_group goes once the lookup's outcome is known:
\* out of the function, or on to cache_insert
AfterQuery_nocheck(status, cache_ttl) ==
    IF cache_ttl # 0 THEN "cache_insert" ELSE "return"

AfterQuery_retry(status, cache_ttl) ==
    IF status # NO_ERROR THEN "expiry"
    ELSE IF cache_ttl # 0 THEN "cache_insert" ELSE "return"

AfterQuery_positive(status, cache_ttl) ==
    IF status = NO_ERROR /\ cache_ttl > 0 THEN "cache_insert" ELSE "return"

AfterQuery_unparsed(status, cache_ttl) ==
    IF status \in {NO_ERROR, ERROR_INVALID_PARAMETER} /\ cache_ttl # 0
    THEN "cache_insert" ELSE "return"

AfterQuery(status, cache_ttl) ==
    IF status = NO_ERROR /\ cache_ttl # 0 THEN "cache_insert" ELSE "return"

Expiry_sliding(t) ==
    LET k == K(t)
        i == list_search(cache[k].head, th[t].lookup)
        fresh == /\ th[t].status = NO_ERROR
                 /\ IsFresh(now, th[t].rec.last_updated, config.cache_ttl)
        f == idmap_filter(config, th[t].lookup, FILTER_LEN)
    IN  /\ th[t].pc = "expiry"
        /\ th' = [th EXCEPT ![t] =
                    IF fresh
                    THEN [@ EXCEPT !.pc = "return", !.fresh = TRUE, !.at = now]
                    ELSE IF f.status # NO_ERROR
                    THEN [@ EXCEPT !.pc = "return", !.status = f.status,
                                   !.at = now]
                    ELSE [@ EXCEPT !.pc = "ldap_search", !.nq = @ + 1,
                                   !.at = now]]
        /\ cache' = IF fresh /\ i # 0
                    THEN [cache EXCEPT ![k].head[i].last_updated = now]
                    ELSE cache
        /\ UNCHANGED <<config, now, ctx>>

\* idmap_lookup_user/_group after cache_lookup: the expiry test; then
\* idmap_query_attrs formats the filter and calls ldap_search_stA
Expiry(t) ==
    LET fresh == /\ th[t].status = NO_ERROR
                 /\ IsFresh(now, th[t].rec.last_updated, config.cache_ttl)
        f == idmap_filter(config, th[t].lookup, FILTER_LEN)
    IN  /\ th[t].pc = "expiry"
        /\ th' = [th EXCEPT ![t] =
                    IF fresh
                    THEN [@ EXCEPT !.pc = "return", !.fresh = TRUE, !.at = now]
                    ELSE IF f.status # NO_ERROR
                    THEN [@ EXCEPT !.pc = "return", !.status = f.status,
                                   !.at = now]
                    ELSE [@ EXCEPT !.pc = "ldap_search", !.nq = @ + 1,
                                   !.at = now]]
        /\ UNCHANGED <<config, now, cache, ctx>>

\* ldap_search_stA returns r; the rest of idmap_query_attrs, the attribute
\* parsing and the timestamp; cache_insert follows when status is 0 and
\* cache_ttl is not 0
SearchReturn(t, r) ==
    LET k == K(t)
        q == IF k = CLASS_USER
             THEN idmap_query_attrs(r, UserAttributes, UserOptional, NUM_ATTRIBUTES)
             ELSE idmap_query_attrs(r, GroupAttributes, {}, NUM_ATTRIBUTES)
        p == IF q.status # NO_ERROR
             THEN [status |-> q.status, rec |-> th[t].rec, errno |-> th[t].errno]
             ELSE IF k = CLASS_USER
             THEN ParseUser(th[t].rec, q.values, th[t].errno, now)
             ELSE ParseGroup(th[t].rec, q.values, th[t].errno, now)
    IN  /\ th[t].pc = "ldap_search"
        /\ th' = [th EXCEPT ![t] =
                    [@ EXCEPT !.status = p.status, !.rec = p.rec,
                              !.errno = p.errno, !.resp = <<r>>,
                              !.pc = AfterQuery(p.status, config.cache_ttl)]]
        /\ UNCHANGED <<config, now, cache, ctx>>

InsertBegin_add(t, alloc_ok) ==
    LET k == K(t)
    IN  /\ th[t].pc = "cache_insert"
        /\ AcquireSRWLockExclusive(cache[k].lock, t)
        /\ alloc_ok
        /\ Allocated < MaxEntries
        /\ cache' = [cache EXCEPT
                ![k].lock.exclusive = @ \cup {t},
                ![k].head = list_add_head(@,
                              entry_copy(k, entry_alloc(k), th[t].rec))]
        /\ th' = [th EXCEPT ![t] = [@ EXCEPT !.pc = "insert_release"]]
        /\ UNCHANGED <<config, now, ctx>>

\* cache_insert: AcquireSRWLockExclusive, list_search; on a match the string
\* half of entry_copy onto the entry; otherwise entry_alloc (alloc_ok says
\* whether calloc succeeds), entry_copy and list_add_head
InsertBegin(t, alloc_ok) ==
    LET k == K(t)
        i == list_search(cache[k].head, th[t].lookup)
    IN  /\ th[t].pc = "cache_insert"
        /\ AcquireSRWLockExclusive(cache[k].lock, t)
        /\ (i = 0 /\ alloc_ok) => Allocated < MaxEntries
        /\ i # 0 => alloc_ok
        /\ IF i # 0
           THEN /\ cache' = [cache EXCEPT
                        ![k].lock.exclusive = @ \cup {t},
                        ![k].head[i] = entry_copy_strings(k, @, th[t].rec)]
                /\ th' = [th EXCEPT ![t] = [@ EXCEPT !.pc = "insert_copy", !.ent = i]]
           ELSE IF alloc_ok
           THEN /\ cache' = [cache EXCEPT
                        ![k].lock.exclusive = @ \cup {t},
                        ![k].head = list_add_head(@,
                                      entry_copy(k, entry_alloc(k), th[t].rec))]
                /\ th' = [th EXCEPT ![t] = [@ EXCEPT !.pc = "insert_release"]]
           ELSE /\ cache' = [cache EXCEPT ![k].lock.exclusive = @ \cup {t}]
                /\ th' = [th EXCEPT ![t] =
                            [@ EXCEPT !.pc = "insert_release",
                                      !.istatus = ERROR_NOT_ENOUGH_MEMORY]]
        /\ UNCHANGED <<config, now, ctx>>

InsertCopy_evict(t) ==
    LET k == K(t)
    IN  /\ th[t].pc = "insert_copy"
        /\ cache' = [cache EXCEPT
                ![k].head = SubSeq(@, 1, th[t].ent - 1)
                            \o SubSeq(@, th[t].ent + 1, Len(@))]
        /\ th' = [th EXCEPT ![t] = [@ EXCEPT !.pc = "insert_release"]]
        /\ UNCHANGED <<config, now, ctx>>

InsertCopy_strings(t) ==
    /\ th[t].pc = "insert_copy"
    /\ th' = [th EXCEPT ![t] = [@ EXCEPT !.pc = "insert_release"]]
    /\ UNCHANGED <<config, now, cache, ctx>>

\* cache_insert: the rest of entry_copy onto the matched entry
InsertCopy(t) ==
    LET k == K(t)
    IN  /\ th[t].pc = "insert_copy"
        /\ cache' = [cache EXCEPT
                ![k].head[th[t].ent] = entry_copy_scalars(k, @, th[t].rec)]
        /\ th' = [th EXCEPT ![t] = [@ EXCEPT !.pc = "insert_release"]]
        /\ UNCHANGED <<config, now, ctx>>

InsertRelease_propagate(t) ==
    LET k == K(t)
    IN  /\ th[t].pc = "insert_release"
        /\ cache' = [cache EXCEPT ![k].lock.exclusive = @ \ {t}]
        /\ th' = [th EXCEPT ![t] = [@ EXCEPT !.pc = "return", !.ent = 0,
                                             !.status = th[t].istatus]]
        /\ UNCHANGED <<config, now, ctx>>

InsertRelease_leak(t) ==
    LET k == K(t)
    IN  /\ th[t].pc = "insert_release"
        /\ cache' = IF th[t].istatus = NO_ERROR
                    THEN [cache EXCEPT ![k].lock.exclusive = @ \ {t}]
                    ELSE cache
        /\ th' = [th EXCEPT ![t] = [@ EXCEPT !.pc = "return", !.ent = 0]]
        /\ UNCHANGED <<config, now, ctx>>

\* cache_insert: ReleaseSRWLockExclusive; its status is not used
InsertRelease(t) ==
    LET k == K(t)
    IN  /\ th[t].pc = "insert_release"
        /\ cache' = [cache EXCEPT ![k].lock.exclusive = @ \ {t}]
        /\ th' = [th EXCEPT ![t] = [@ EXCEPT !.pc = "return", !.ent = 0]]
        /\ UNCHANGED <<config, now, ctx>>

\* the public operation writes its outputs and returns
Return(t) ==
    LET r == FacadeReturn(th[t].op, th[t].status, th[t].rec, th[t].len, th[t].out)
    IN  /\ th[t].pc = "return"
        /\ th' = [th EXCEPT ![t] =
                    [@ EXCEPT !.pc = "done", !.lstatus = th[t].status,
                              !.status = r.status, !.out = r.out]]
        /\ UNCHANGED <<config, now, cache, ctx>>

\* a second passes
Tick ==
    /\ now < MaxTime
    /\ now' = now + 1
    /\ UNCHANGED <<config, cache, th, ctx>>


nfs41_idmap_free_leak(c) == [c EXCEPT !.context = "freed"]

\* nfs41_idmap_free: ldap_unbind when a connection was opened, free(context);
\* the cache_cleanup of both caches is in the actions that call it
nfs41_idmap_free(c) ==
    [c EXCEPT !.ldap = IF c.ldap = "open" THEN "unbound" ELSE @,
              !.context = "freed"]

cache_cleanup(c) == [c EXCEPT !.head = <<>>]

\* nfs41_idmap_create up to the fopen of config_load: calloc (alloc_ok, and
\* the GetLastError() that follows its failure), cache_init of both caches,
\* config_defaults
CreateBegin(alloc_ok, gle) ==
    LET Defaults(d) ==
            /\ config' = d.config
            /\ ctx' = [ctx EXCEPT !.context = "allocated",
                                  !.errno = d.errno,
                                  !.status = d.status,
                                  !.pc = IF d.status # NO_ERROR
                                         THEN "out_err_free"
                                         ELSE IF ctx.file.exists
                                         THEN "fgets" ELSE "ldap_init"]
    IN  /\ ctx.pc = "start"
        /\ IF ~alloc_ok
           THEN /\ ctx' = [ctx EXCEPT !.pc = "returned", !.status = gle]
                /\ UNCHANGED <<config, cache>>
           ELSE /\ Defaults(config_defaults(ZeroConfig, ctx.errno))
                /\ cache' = [k \in Klasses |-> cache_init]
        /\ UNCHANGED <<now, th>>

\* config_load: one turn of the fgets loop; at the end of the file fclose
\* and the return of config_init
ConfigLine ==
    LET Line(n, r) ==
            /\ config' = r.config
            /\ ctx' = [ctx EXCEPT !.line = n, !.errno = r.errno,
                                  !.status = r.status,
                                  !.pc = IF r.status # NO_ERROR
                                         THEN "out_err_free" ELSE "fgets"]
    IN  /\ ctx.pc = "fgets"
        /\ IF ctx.line = Len(ctx.file.lines)
           THEN /\ ctx' = [ctx EXCEPT !.pc = "ldap_init"]
                /\ UNCHANGED config
           ELSE Line(ctx.line + 1,
                     config_load_line(config, ctx.errno,
                                      ctx.file.lines[ctx.line + 1]))
        /\ UNCHANGED <<now, cache, th>>

\* the step of nfs41_idmap_create after a call into wldap32 that returned the
\* LDAP code r
AfterLdap_raw(c, r, next) ==
    IF r # LDAP_SUCCESS
    THEN [c EXCEPT !.raw = r, !.status = r, !.pc = "out_err_free"]
    ELSE IF next = "returned"
    THEN [c EXCEPT !.status = NO_ERROR, !.context_out = TRUE, !.pc = next]
    ELSE [c EXCEPT !.status = NO_ERROR, !.pc = next]

AfterLdap(c, r, next) ==
    IF r # LDAP_SUCCESS
    THEN [c EXCEPT !.raw = r, !.status = LdapMapErrorToWin32(r),
                   !.pc = "out_err_free"]
    ELSE IF next = "returned"
    THEN [c EXCEPT !.status = NO_ERROR, !.context_out = TRUE, !.pc = next]
    ELSE [c EXCEPT !.status = NO_ERROR, !.pc = next]

\* ldap_init: r is LDAP_SUCCESS when it returns a connection, otherwise the
\* code LdapGetLastError() gives after it returned NULL
LdapInit(r) ==
    /\ ctx.pc = "ldap_init"
    /\ ctx' = AfterLdap([ctx EXCEPT !.ldap = IF r = LDAP_SUCCESS
                                             THEN "open" ELSE "null"],
                        r, "set_version")
    /\ UNCHANGED <<config, now, cache, th>>

\* ldap_set_option(LDAP_OPT_PROTOCOL_VERSION), then, when config.timeout is
\* not 0, ldap_set_option(LDAP_OPT_TIMELIMIT); after the last one
\* *context_out = context
LdapSetOption(r) ==
    /\ ctx.pc \in {"set_version", "set_timeout"}
    /\ ctx' = AfterLdap(ctx, r,
                  IF ctx.pc = "set_version" /\ config.timeout # 0
                  THEN "set_timeout" ELSE "returned")
    /\ UNCHANGED <<config, now, cache, th>>

\* out_err_free: nfs41_idmap_free(context), then the return of status
CreateFail ==
    /\ ctx.pc = "out_err_free"
    /\ ctx' = [nfs41_idmap_free(ctx) EXCEPT !.pc = "returned"]
    /\ cache' = [k \in Klasses |-> cache_cleanup(cache[k])]
    /\ UNCHANGED <<config, now, th>>

\* the caller of nfs41_idmap_create frees the context it was handed, when no
\* call is running on it
Free ==
    /\ ctx.pc = "returned" /\ ctx.context_out /\ ctx.context = "allocated"
    /\ \A t \in Threads : th[t].pc \in {"idle", "done"}
    /\ ctx' = nfs41_idmap_free(ctx)
    /\ cache' = [k \in Klasses |-> cache_cleanup(cache[k])]
    /\ UNCHANGED <<config, now, th>>


(***************************************************************************)
(* The environment the model is run against: the keys callers pass, the    *)
(* buffer lengths, and what the directory may answer.                      *)
(***************************************************************************)
S_al == <<"a", "l">>
S_bo == <<"b", "o">>
P_al == <<"a", "l", "@", "d">>
S_st == <<"s", "t">>
S_wh == <<"w", "h">>
LongKey == Rep("k", FILTER_LEN)
LongValue == Rep("x", VAL_LEN)

\* an LDAP entry: the values of each of the five attributes
Entry(un, gn, pr, uid, gid) ==
    [i \in 0..(NUM_ATTRIBUTES - 1) |-> <<un, gn, pr, uid, gid>>[i + 1]]

U_al == Entry(<<S_al>>, <<S_al>>, <<P_al>>, <<<<"1">>>>, <<<<"5">>>>)
U_bo == Entry(<<S_bo>>, <<S_bo>>, <<>>, <<<<"2">>>>, <<<<"1">>>>)
U_nouid == Entry(<<S_al>>, <<S_al>>, <<P_al>>, <<>>, <<<<"5">>>>)
U_badgid == Entry(<<S_bo>>, <<S_bo>>, <<>>, <<<<"1">>>>, <<<<"5", "x">>>>)
U_long == Entry(<<LongValue>>, <<LongValue>>, <<>>, <<<<"1">>>>, <<<<"5">>>>)
\* al after the directory changed its record: no principal, another gid
U_al_new == Entry(<<S_al>>, <<S_al>>, <<>>, <<<<"1">>>>, <<<<"6">>>>)

G_st == Entry(<<S_st>>, <<S_st>>, <<>>, <<>>, <<<<"5">>>>)
G_wh == Entry(<<S_wh>>, <<S_wh>>, <<>>, <<>>, <<<<"6">>>>)
G_nogid == Entry(<<S_st>>, <<S_st>>, <<>>, <<>>, <<>>)

UserEntries == {U_al, U_bo, U_nouid, U_badgid, U_long}
GroupEntries == {G_st, G_wh, G_nogid}

FailCodes == {LDAP_SERVER_DOWN, LDAP_SIZELIMIT_EXCEEDED, LDAP_NO_RESULTS_RETURNED}

\* a directory that is not trusted to answer with the record asked for
Responses(t) ==
    {SearchFailed(c) : c \in FailCodes} \cup {SearchResult(<<>>)}
    \cup {SearchResult(<<e>>) :
            e \in IF K(t) = CLASS_USER THEN UserEntries ELSE GroupEntries}

Values(op) ==
    CASE op = "name_to_uid" -> {S_al, LongKey}
      [] op = "name_to_ids" -> {S_al}
      [] op = "uid_to_name" -> {1, 2}
      [] op = "principal_to_ids" -> {P_al}
      [] op = "group_to_gid" -> {S_st}
      [] OTHER -> {5}

Lens(op) == IF op \in {"uid_to_name", "gid_to_group"} THEN {0, 2, 3} ELSE {0}

\* cache_ttl: caching off, or on with a positive time to live
CacheTtls == {0, TTL}

Init ==
    /\ config \in {DefaultConfig(ttl) : ttl \in CacheTtls}
    /\ now = 0
    /\ cache = [k \in Klasses |-> cache_init]
    /\ th = [t \in Threads |-> IdleThread]
    /\ ctx = ContextCreated(NoFile)

\* the steps of a call on thread t that do not depend on the environment
Inner(t) ==
    \/ LookupBegin(t)
    \/ LookupCopy(t)
    \/ LookupRelease(t)
    \/ Expiry(t)
    \/ \E alloc_ok \in BOOLEAN : InsertBegin(t, alloc_ok)
    \/ InsertCopy(t)
    \/ InsertRelease(t)
    \/ Return(t)

\* calls made one at a time, from one thread
Next ==
    \/ \E op \in Ops : \E value \in Values(op) : \E len \in Lens(op) :
            Call(1, op, value, len)
    \/ \E r \in Responses(1) : SearchReturn(1, r)
    \/ Inner(1)
    \/ Tick

Spec == Init /\ [][Next]_vars

(***************************************************************************)
(* The same calls against an internally consistent directory that answers *)
(* every search: user names, uids and principals are unique, group names   *)
(* and gids are unique, and a search returns the entry whose attribute has *)
(* the value searched for, or no entry when there is none.                 *)
(***************************************************************************)
Directory == [k \in Klasses |-> IF k = CLASS_USER THEN {U_al, U_bo}
                                                ELSE {G_st, G_wh}]

\* (&(objectClass=<class>)(<attr>=<value>)) evaluated on entry e
Matches(e, lookup) ==
    LET vals == e[lookup.attr]
    IN  /\ vals # <<>>
        /\ IF lookup.type = "TYPE_INT"
           THEN FormatUInt(lookup.value) = vals[1]
           ELSE lookup.value = vals[1]

DirResponses(t) ==
    LET found == {e \in Directory[K(t)] : Matches(e, th[t].lookup)}
    IN  IF found = {} THEN {SearchResult(<<>>)}
                      ELSE {SearchResult(<<e>>) : e \in found}

NextDir ==
    \/ \E op \in Ops : \E value \in Values(op) : \E len \in Lens(op) :
            Call(1, op, value, len)
    \/ \E r \in DirResponses(1) : SearchReturn(1, r)
    \/ Inner(1)
    \/ Tick

SpecDir == Init /\ [][NextDir]_vars

(***************************************************************************)
(* Two threads calling into the user cache at once, while the directory    *)
(* changes al's record.                                                    *)
(***************************************************************************)
ConcOps == {"name_to_uid"}

ConcValues(op) == IF op = "name_to_uid" THEN {S_al} ELSE {1}

ConcResponses == {SearchResult(<<U_al>>), SearchResult(<<U_al_new>>)}

InitConc ==
    /\ config = DefaultConfig(TTL)
    /\ now = 0
    /\ cache = [k \in Klasses |-> cache_init]
    /\ th = [t \in Threads |-> IdleThread]
    /\ ctx = ContextCreated(NoFile)

NextConc ==
    \/ \E t \in Threads : \E op \in ConcOps : \E value \in ConcValues(op) :
            Call(t, op, value, 3)
    \/ \E t \in Threads : \E r \in ConcResponses : SearchReturn(t, r)
    \/ \E t \in Threads : Inner(t)
    \/ Tick

SpecConc == InitConc /\ [][NextConc]_vars

(***************************************************************************)
(* The build with NFS41_DRIVER_FEATURE_IDMAPPER_CYGWIN: idmap_lookup_user   *)
(* asks the local account database instead of the directory.               *)
(***************************************************************************)
\* the localdomain_name nfs41_idmap_create was called with
localdomain_name == <<"d">>

\* the local accounts
Accounts == {[name |-> S_al, uid |-> 1, gid |-> 5]}

\* cygwin_getent_passwd(name, res_loginname, &res_uid, &res_gid): 0 and the
\* account called name, or numbered name, when there is one
cygwin_getent_passwd(name) ==
    LET hits == {a \in Accounts : a.name = name \/ FormatUInt(a.uid) = name}
    IN  IF hits = {} THEN [rc |-> 1, loginname |-> <<>>, uid |-> 0, gid |-> 0]
        ELSE LET a == CHOOSE h \in hits : TRUE
             IN  [rc |-> 0, loginname |-> a.name, uid |-> a.uid, gid |-> a.gid]

\* snprintf(buf, size, "%s@%s", name, domain)
snprintf(size, name, domain) ==
    LET Cut(str) == SubSeq(str, 1, IF Len(str) < size THEN Len(str) ELSE size - 1)
    IN  Cut(name \o <<"@">> \o domain)

\* idmap_lookup_user after a cache miss or a stale hit: [status, rec]
idmap_lookup_user_cygwin(user, lookup, time) ==
    LET miss == [status |-> ERROR_NOT_FOUND, rec |-> user]
        Fill(username, principal_name, g) ==
            [status |-> NO_ERROR,
             rec |-> [user EXCEPT
                        !.username = StringCchCopyA(@, VAL_LEN, username).dst,
                        !.principal = StringCchCopyA(@, VAL_LEN, principal_name).dst,
                        !.uid = g.uid, !.gid = g.gid, !.last_updated = time]]
        ByName(g) ==
            IF g.rc # 0 THEN miss
            ELSE Fill(lookup.value,
                      snprintf(VAL_LEN, lookup.value, localdomain_name), g)
        Synthesized(search_name, principal_name, g) ==
            IF strcmp(principal_name, lookup.value) # 0 THEN miss
            ELSE Fill(search_name, principal_name, g)
        Stripped(search_name, g) ==
            IF g.rc # 0 THEN miss
            ELSE Synthesized(search_name,
                     snprintf(VAL_LEN, lookup.value, localdomain_name), g)
        ByPrincipal(at) ==
            LET Search(search_name) ==
                    Stripped(search_name, cygwin_getent_passwd(search_name))
            IN  Search(IF at = 0 THEN lookup.value
                       ELSE SubSeq(lookup.value, 1, at - 1))
        ById(g) ==
            IF g.rc # 0 THEN miss
            ELSE Fill(g.loginname,
                      snprintf(VAL_LEN, g.loginname, localdomain_name), g)
    IN  CASE lookup.attr = ATTR_USER_NAME ->
                ByName(cygwin_getent_passwd(lookup.value))
          [] lookup.attr = ATTR_PRINCIPAL ->
                ByPrincipal(strchr(lookup.value, 1, "@"))
          [] lookup.attr = ATTR_UID ->
                ById(cygwin_getent_passwd(FormatUInt(lookup.value)))
          [] OTHER -> miss

\* idmap_lookup_user after cache_lookup: the expiry test, then the local
\* lookup; cache_insert follows when status is 0 and cache_ttl is not 0
ExpiryCygwin(t) ==
    LET fresh == /\ th[t].status = NO_ERROR
                 /\ IsFresh(now, th[t].rec.last_updated, config.cache_ttl)
        Looked(r) ==
            [th[t] EXCEPT !.status = r.status, !.rec = r.rec, !.nq = @ + 1,
                          !.at = now,
                          !.pc = AfterQuery(r.status, config.cache_ttl)]
    IN  /\ th[t].pc = "expiry"
        /\ th' = [th EXCEPT ![t] =
                    IF fresh
                    THEN [@ EXCEPT !.pc = "return", !.fresh = TRUE, !.at = now]
                    ELSE Looked(idmap_lookup_user_cygwin(th[t].rec,
                                    th[t].lookup, now))]
        /\ UNCHANGED <<config, now, cache, ctx>>

CygwinOps == {"name_to_ids", "principal_to_ids", "uid_to_name"}

CygwinValues(op) ==
    CASE op = "name_to_ids" -> {S_al, S_bo}
      [] op = "principal_to_ids" ->
            {P_al, S_al, <<"a", "l", "@", "x">>, <<"b", "o", "@", "d">>}
      [] OTHER -> {1, 2}

NextCygwin ==
    \/ \E op \in CygwinOps : \E value \in CygwinValues(op) : \E len \in Lens(op) :
            Call(1, op, value, len)
    \/ LookupBegin(1)
    \/ LookupCopy(1)
    \/ LookupRelease(1)
    \/ ExpiryCygwin(1)
    \/ \E alloc_ok \in BOOLEAN : InsertBegin(1, alloc_ok)
    \/ InsertCopy(1)
    \/ InsertRelease(1)
    \/ Return(1)
    \/ Tick

SpecCygwin == Init /\ [][NextCygwin]_vars

(***************************************************************************)
(* Two threads on different caches: thread 1 calls a user operation while  *)
(* thread 2 calls a group operation.                                       *)
(***************************************************************************)
TwoOps(t) == IF t = 1 THEN {"name_to_uid"} ELSE {"group_to_gid"}

TwoValues(op) == IF op = "name_to_uid" THEN {S_al} ELSE {S_st}

TwoResponses(t) ==
    IF K(t) = CLASS_USER THEN {SearchResult(<<U_al>>)}
    ELSE {SearchResult(<<G_st>>)}

NextTwo ==
    \/ \E t \in Threads : \E op \in TwoOps(t) : \E value \in TwoValues(op) :
            Call(t, op, value, 3)
    \/ \E t \in Threads : \E r \in TwoResponses(t) : SearchReturn(t, r)
    \/ \E t \in Threads : Inner(t)
    \/ Tick

SpecTwo == InitConc /\ [][NextTwo]_vars


(***************************************************************************)
(* Construction: nfs41_idmap_create over the configuration files below,    *)
(* then nfs41_idmap_free by the caller.                                    *)
(***************************************************************************)
MaxLines == 2

K_username == <<"l", "d", "a", "p", "_", "a", "t", "t", "r", "_", "u", "s", "e", "r", "n", "a", "m", "e">>
K_base == <<"l", "d", "a", "p", "_", "b", "a", "s", "e">>
K_ttl == <<"c", "a", "c", "h", "e", "_", "t", "t", "l">>
K_TTL == <<"C", "A", "C", "H", "E", "_", "T", "T", "L">>
K_timeout == <<"l", "d", "a", "p", "_", "t", "i", "m", "e", "o", "u", "t">>
K_foo == <<"f", "o", "o">>

\* the shapes of a line, as fgets returns it
Line_plain(k, v) == k \o <<" ", "=", " ">> \o v \o <<"\n">>
Line_quoted(k, v) == k \o <<" ", "=", " ", "\"">> \o v \o <<"\"", "\n">>
Line_comment(k, v) == k \o <<" ", "=", " ">> \o v \o <<" ", "#", " ", "c", "\n">>
Line_noeq(k, v) == k \o <<" ">> \o v \o <<"\n">>
Line_nokey(v) == <<" ", "=", " ">> \o v \o <<"\n">>
Line_novalue(k) == k \o <<" ", "=", " ", "\n">>
Line_noquote(k, v) == k \o <<" ", "=", " ", "\"">> \o v \o <<"\n">>

StrKeys == {K_username, K_base}
StrValues == {<<"u", "i", "d">>, <<"a", " ", "b">>}
IntTexts ==
    {<<"1", "2", "3">>, <<"0">>, <<"1", "2", "3", "a", "b", "c">>, <<"a", "b", "c">>, <<"4", "2", "9", "4", "9", "6", "7", "2", "9", "5">>, <<"4", "2", "9", "4", "9", "6", "7", "2", "9", "6">>, <<"9", "9", "9", "9", "9", "9", "9", "9", "9", "9", "9">>,
     <<"-", "1">>, <<"+", "5">>, <<>>, <<" ", "5">>}

GoodLines(k, v) == {Line_plain(k, v), Line_quoted(k, v), Line_comment(k, v)}
BadLines(k, v) ==
    {Line_noeq(k, v), Line_nokey(v), Line_novalue(k), Line_noquote(k, v)}

Lines ==
    UNION {GoodLines(k, v) \cup BadLines(k, v) : k \in StrKeys, v \in StrValues}
    \cup {Line_quoted(K_ttl, v) : v \in IntTexts}
    \cup {Line_plain(K_TTL, <<"7">>), Line_plain(K_timeout, <<"5">>),
          Line_plain(K_foo, <<"b", "a", "r">>), Line_plain(K_username, Rep("a", NAME_LEN)),
          Line_plain(K_username, Rep("a", NAME_LEN - 1)),
          <<" ", "#", " ", "c", "\n">>, <<" ", "\n">>}

\* the lines before the last one of a file: lines config_load accepts
PrefixLines ==
    {Line_plain(K_timeout, <<"5">>), Line_quoted(K_username, <<"u", "i", "d">>),
     <<" ", "#", " ", "c", "\n">>}

RECURSIVE FilesOfLen(_)
FilesOfLen(n) ==
    IF n = 1 THEN {<<l>> : l \in Lines}
    ELSE {<<p>> \o f : p \in PrefixLines, f \in FilesOfLen(n - 1)}

Files ==
    {NoFile} \cup
    {[exists |-> TRUE, lines |-> f] : f \in UNION {FilesOfLen(n) : n \in 1..MaxLines}}
    \cup {[exists |-> TRUE, lines |-> <<>>]}

\* GetLastError() after calloc returned NULL
LastErrors == {NO_ERROR, ERROR_NOT_ENOUGH_MEMORY}

\* before nfs41_idmap_create is called, with the file f at CONFIG_FILENAME
ContextStart(f) ==
    [pc |-> "start", file |-> f, line |-> 0, status |-> NO_ERROR,
     context |-> "none", ldap |-> "null", context_out |-> FALSE,
     errno |-> 0, raw |-> LDAP_SUCCESS]

InitCreate ==
    /\ config = ZeroConfig
    /\ now = 0
    /\ cache = [k \in Klasses |-> cache_init]
    /\ th = [t \in Threads |-> IdleThread]
    /\ ctx \in {ContextStart(f) : f \in Files}

NextCreate ==
    \/ \E alloc_ok \in BOOLEAN : \E gle \in LastErrors : CreateBegin(alloc_ok, gle)
    \/ ConfigLine
    \/ \E r \in {LDAP_SUCCESS} \cup FailCodes : LdapInit(r)
    \/ \E r \in {LDAP_SUCCESS} \cup FailCodes : LdapSetOption(r)
    \/ CreateFail
    \/ Free

SpecCreate == InitCreate /\ [][NextCreate]_vars

(***************************************************************************)
(* The life of a mapper: nfs41_idmap_create, calls from one thread on the  *)
(* context it returned, nfs41_idmap_free.                                  *)
(***************************************************************************)
LifeOps == {"name_to_uid", "gid_to_group"}

\* no file (cache_ttl 6000), caching switched off, a time to live of TTL
LifeFiles ==
    {NoFile,
     [exists |-> TRUE, lines |-> <<Line_plain(K_ttl, <<"0">>)>>],
     [exists |-> TRUE, lines |-> <<Line_plain(K_ttl, FormatUInt(TTL))>>]}

InitLife ==
    /\ config = ZeroConfig
    /\ now = 0
    /\ cache = [k \in Klasses |-> cache_init]
    /\ th = [t \in Threads |-> IdleThread]
    /\ ctx \in {ContextStart(f) : f \in LifeFiles}

NextLife ==
    \/ NextCreate
    \/ \E op \in LifeOps : \E value \in Values(op) : \E len \in Lens(op) :
            Call(1, op, value, len)
    \/ \E r \in Responses(1) : SearchReturn(1, r)
    \/ Inner(1)
    \/ Tick

SpecLife == InitLife /\ [][NextLife]_vars




(***************************************************************************)
(* The calls of SpecDir under every kind of cache_ttl a configuration file *)
(* can set: 0, a positive number, and a negative one (cache_ttl is an INT  *)
(* that receives the UINT parse_uint returns, so "4294967295" and "-1"     *)
(* both give -1).                                                          *)
(***************************************************************************)
InitTtl ==
    /\ config \in {DefaultConfig(ttl) : ttl \in {0, TTL, -TTL}}
    /\ now = 0
    /\ cache = [k \in Klasses |-> cache_init]
    /\ th = [t \in Threads |-> IdleThread]
    /\ ctx = ContextCreated(NoFile)

SpecTtl == InitTtl /\ [][NextDir]_vars


(***************************************************************************)
(* Fewer keys than Spec, against the same untrusted directory: users       *)
(* looked up by name, by uid and by principal, the empty string among the  *)
(* principals, and one group looked up by gid.                             *)
(***************************************************************************)
KeyOps == {"name_to_uid", "name_to_ids", "uid_to_name", "principal_to_ids",
           "gid_to_group"}

KeyValues(op) ==
    CASE op = "name_to_uid" -> {S_al, LongKey}
      [] op = "name_to_ids" -> {S_al}
      [] op = "uid_to_name" -> {2}
      [] op = "principal_to_ids" -> {<<>>}
      [] OTHER -> {5}

NextKeys ==
    \/ \E op \in KeyOps : \E value \in KeyValues(op) : \E len \in Lens(op) :
            Call(1, op, value, len)
    \/ \E r \in Responses(1) : SearchReturn(1, r)
    \/ Inner(1)
    \/ Tick

SpecKeys == Init /\ [][NextKeys]_vars


(***************************************************************************)
(* A time to live of more than one second and a clock that runs one second *)
(* past it, so that an entry can be hit after its refresh and before it    *)
(* expires: name_to_uid and gid_to_group against the consistent directory. *)
(***************************************************************************)
InitSlide ==
    /\ config = DefaultConfig(TTL + 1)
    /\ now = 0
    /\ cache = [k \in Klasses |-> cache_init]
    /\ th = [t \in Threads |-> IdleThread]
    /\ ctx = ContextCreated(NoFile)

\* a second passes
LateTick ==
    /\ now < MaxTime + 1
    /\ now' = now + 1
    /\ UNCHANGED <<config, cache, th, ctx>>

NextSlide ==
    \/ \E op \in LifeOps : \E value \in Values(op) : \E len \in Lens(op) :
            Call(1, op, value, len)
    \/ \E r \in DirResponses(1) : SearchReturn(1, r)
    \/ Inner(1)
    \/ LateTick

SpecSlide == InitSlide /\ [][NextSlide]_vars


(***************************************************************************)
(* Two threads looking up one user, or one group, at once against the      *)
(* consistent directory: the first by name, the second by name or by       *)
(* number.  The clock stands still, so every entry found is fresh.         *)
(***************************************************************************)
PairOps(t) == IF t = 1 THEN {"name_to_uid", "group_to_gid"}
                       ELSE {"name_to_uid", "uid_to_name", "gid_to_group"}

PairValues(op) ==
    CASE op = "name_to_uid" -> {S_al}
      [] op = "uid_to_name" -> {1}
      [] op = "group_to_gid" -> {S_st}
      [] OTHER -> {5}

NextPair ==
    \/ \E t \in Threads : \E op \in PairOps(t) : \E value \in PairValues(op) :
            Call(t, op, value, 3)
    \/ \E t \in Threads : \E r \in DirResponses(t) : SearchReturn(t, r)
    \/ \E t \in Threads : Inner(t)

SpecPair == InitConc /\ [][NextPair]_vars


(***************************************************************************)
(* The two threads of SpecPair under fair scheduling: a thread that can    *)
(* take a step of its call again and again takes one, also when the step   *)
(* is the acquisition of an SRW lock that other threads keep taking and    *)
(* releasing.  Nothing is assumed about the directory: a search may never  *)
(* return.                                                                 *)
(***************************************************************************)
SpecFair == SpecPair /\ \A t \in Threads : SF_vars(Inner(t))


(***************************************************************************)
(* Successive lookups on one thread whose uid attributes are parsed one    *)
(* after the other: 1, 2^32 - 1, which is the largest uid, and 2^32, which *)
(* overflows.  errno belongs to the thread and outlives each call.         *)
(***************************************************************************)
U_max == Entry(<<S_al>>, <<S_al>>, <<>>,
               <<<<"4", "2", "9", "4", "9", "6", "7", "2", "9", "5">>>>, <<<<"5">>>>)
U_over == Entry(<<S_al>>, <<S_al>>, <<>>,
                <<<<"4", "2", "9", "4", "9", "6", "7", "2", "9", "6">>>>, <<<<"5">>>>)

SpecParse ==
    Init /\ [][\/ Call(1, "name_to_uid", S_al, 0)
               \/ \E e \in {U_al, U_max, U_over} :
                     SearchReturn(1, SearchResult(<<e>>))
               \/ Inner(1)
               \/ Tick]_vars


(***************************************************************************)
(* Properties.                                                             *)
(***************************************************************************)
Done(t) == th[t].pc = "done"

\* the filter of the call fits the filter buffer
FilterFits(t) == Len(FilterText(config, th[t].lookup)) < FILTER_LEN

\* what the call handed back to its caller
Outcome(t) == [status |-> th[t].status, out |-> th[t].out]

\* what the operation hands back when its lookup succeeded with entry rec
SuccessWith(t, rec) ==
    FacadeReturn(th[t].op, NO_ERROR, rec, th[t].len, NoOutput)

\* the entry cache_lookup found was older than cache_ttl at the expiry test
Stale(t) ==
    /\ th[t].cached # <<>>
    /\ th[t].at - th[t].cached[1].last_updated >= config.cache_ttl

\* the outcomes of the directory search
SearchFail(t) == th[t].resp # <<>> /\ th[t].resp[1].ldap # LDAP_SUCCESS

NoEntries(t) ==
    /\ th[t].resp # <<>>
    /\ th[t].resp[1].ldap = LDAP_SUCCESS
    /\ th[t].resp[1].entries = <<>>

GotEntry(t) ==
    /\ th[t].resp # <<>>
    /\ th[t].resp[1].ldap = LDAP_SUCCESS
    /\ th[t].resp[1].entries # <<>>

Required(klass) ==
    IF klass = CLASS_USER THEN UserAttributes \ UserOptional ELSE GroupAttributes

MissingAttr(t) ==
    /\ GotEntry(t)
    /\ \E i \in Required(K(t)) : th[t].resp[1].entries[1][i] = <<>>

\* rec carries the values of the entry the directory returned
CarriesAnswer(t) ==
    LET e == th[t].resp[1].entries[1]
        r == th[t].rec
    IN  IF K(t) = CLASS_USER
        THEN /\ r.username = e[ATTR_USER_NAME][1]
             /\ r.principal = (IF e[ATTR_PRINCIPAL] = <<>> THEN <<>>
                               ELSE e[ATTR_PRINCIPAL][1])
             /\ FormatUInt(r.uid) = e[ATTR_UID][1]
             /\ FormatUInt(r.gid) = e[ATTR_GID][1]
        ELSE /\ r.name = e[ATTR_GROUP_NAME][1]
             /\ FormatUInt(r.gid) = e[ATTR_GID][1]

\* the age, at the expiry test, of the entry the previous identical call
\* returned is inside the time to live
InWindow(t) ==
    th[t].at - th[t].prev_rec[1].last_updated < config.cache_ttl

\* C1 as the specification states it: with cache_ttl = T > 0, after a
\* successful lookup of a key, a second identical lookup inside the window
\* issues no query and returns the cached value, and one outside the window
\* issues exactly one query.
C1_AsStated ==
    \A t \in Threads :
        (Done(t) /\ config.cache_ttl > 0 /\ th[t].prev_rec # <<>>) =>
            IF InWindow(t)
            THEN /\ th[t].nq = 0
                 /\ Outcome(t) = SuccessWith(t, th[t].prev_rec[1])
            ELSE th[t].nq = 1

\* C1, amended: with cache_ttl = T > 0, after a successful lookup of a key
\* that left its result in the cache under that key (it was served from a
\* fresh entry, or the record the directory returned matches the key and
\* the allocation of the entry did not fail), a second identical lookup made
\* while now - last_updated < T issues no backend query and returns the
\* cached value; after any successful lookup, an identical lookup made when
\* now - last_updated >= T issues exactly one backend query.  All six
\* operations.
C1_TtlWindow ==
    \A t \in Threads :
        (Done(t) /\ config.cache_ttl > 0 /\ th[t].prev_rec # <<>>) =>
            IF InWindow(t)
            THEN th[t].kept =>
                    /\ th[t].nq = 0
                    /\ Outcome(t) = SuccessWith(t, th[t].prev_rec[1])
            ELSE th[t].nq = 1

\* a repeated gid_to_group inside the window, served from the cache
C1_Witness ==
    \E t \in Threads :
        /\ Done(t) /\ config.cache_ttl > 0 /\ th[t].prev_rec # <<>>
        /\ th[t].kept /\ InWindow(t) /\ th[t].nq = 0
        /\ th[t].op = "gid_to_group" /\ th[t].status = NO_ERROR

\* C2 as the specification states it: with cache_ttl = 0 every facade
\* lookup issues exactly one backend query.
C2_AsStated ==
    \A t \in Threads : (Done(t) /\ config.cache_ttl = 0) => th[t].nq = 1

\* C2, amended: with cache_ttl = 0 every facade lookup whose search filter
\* fits the filter buffer issues exactly one backend query, no matter how
\* many times the key was looked up before; a lookup whose filter does not
\* fit issues none.
C2_NoCaching ==
    \A t \in Threads :
        (Done(t) /\ config.cache_ttl = 0) =>
            /\ th[t].nq = (IF FilterFits(t) THEN 1 ELSE 0)
            /\ th[t].cached = <<>>
            /\ Heads = [k \in Klasses |-> <<>>]

\* the same key looked up again right after a success, and queried again
C2_Witness ==
    \E t \in Threads :
        /\ Done(t) /\ config.cache_ttl = 0
        /\ th[t].prev_rec # <<>> /\ th[t].at = th[t].prev_rec[1].last_updated
        /\ th[t].nq = 1 /\ th[t].status = NO_ERROR

\* C3: a call whose cache lookup finds an entry of age >= cache_ttl does not
\* take it as fresh; it returns success only after its one backend query
\* succeeded, and then with the backend's values; if the query fails the
\* call returns that error and leaves the caller's outputs unwritten.
C3_StaleNeverReturned ==
    \A t \in Threads :
        (Done(t) /\ Stale(t)) =>
            /\ ~th[t].fresh
            /\ th[t].lstatus = NO_ERROR =>
                    /\ th[t].nq = 1 /\ GotEntry(t) /\ CarriesAnswer(t)
                    /\ Outcome(t) = SuccessWith(t, th[t].rec)
            /\ th[t].lstatus # NO_ERROR =>
                    /\ th[t].status = th[t].lstatus
                    /\ th[t].out = NoOutput

\* a stale hit refreshed with a uid other than the stale one
C3_Witness ==
    \E t \in Threads :
        /\ Done(t) /\ Stale(t) /\ th[t].status = NO_ERROR
        /\ th[t].op = "name_to_uid"
        /\ th[t].out.uid # <<th[t].cached[1].uid>>

\* C4: when the entry the directory returned lacks a required attribute,
\* the call fails with the status of LDAP_NO_SUCH_ATTRIBUTE, writes no
\* output, and both caches hold exactly what they held when it started;
\* also when the query followed a stale hit.
C4_MissingAttribute ==
    \A t \in Threads :
        (Done(t) /\ MissingAttr(t)) =>
            /\ th[t].status = LdapMapErrorToWin32(LDAP_NO_SUCH_ATTRIBUTE)
            /\ th[t].out = NoOutput
            /\ Heads = th[t].pre

\* a stale hit whose refresh lacked the attribute
C4_Witness ==
    \E t \in Threads :
        /\ Done(t) /\ MissingAttr(t) /\ Stale(t)
        /\ cache[K(t)].head # <<>>


\* the records one cache_insert can write into the user cache: the parse
\* of one directory entry, stamped with one time
CompleteRecords ==
    {ParseUser(UninitEntry(CLASS_USER), e, 0, time).rec :
        e \in {U_al, U_al_new}, time \in 0..MaxTime}

\* thread t is inside cache_lookup, past entry_copy, the lock still held
Copied(t) == th[t].pc = "lookup_release" /\ th[t].status = NO_ERROR

\* thread t is inside cache_insert, past its writes, the lock still held
Inserted(t) == th[t].pc = "insert_release" /\ th[t].istatus = NO_ERROR

\* the entry a cache_lookup of this key finds now
FirstMatch(t) ==
    LET head == cache[K(t)].head
        i == list_search(head, th[t].lookup)
    IN  IF i = 0 THEN <<>> ELSE <<head[i]>>

\* C5: under any interleaving of cache_lookup and cache_insert on one
\* cache, every copy cache_lookup returns is the complete field set one
\* cache_insert wrote (never fields of two inserts, never a half-written
\* entry); lookups of one key that overlap, so that no insert lies between
\* them, return identical copies; and when a cache_insert of new values for
\* a key returns, the entry found under that key holds those values, and
\* what a lookup copies is the entry found under its key.
C5_WholeEntries ==
    /\ \A t \in Threads :
          th[t].cached # <<>> => th[t].cached[1] \in CompleteRecords
    /\ \A t \in Threads : Copied(t) => <<th[t].rec>> = FirstMatch(t)
    /\ \A t1, t2 \in Threads :
          (Copied(t1) /\ Copied(t2) /\ th[t1].lookup = th[t2].lookup) =>
              th[t1].rec = th[t2].rec
    /\ \A t \in Threads :
          (Inserted(t) /\ compare(th[t].lookup, th[t].rec) = 0) =>
              FirstMatch(t) = <<th[t].rec>>

\* a reader holds the copy of the entry while a writer waits to overwrite
\* that entry with other values
C5_Witness ==
    \E t1, t2 \in Threads :
        /\ Copied(t1)
        /\ th[t2].pc = "cache_insert"
        /\ FirstMatch(t2) = <<th[t1].rec>>
        /\ th[t2].rec.gid # th[t1].rec.gid
        /\ th[t2].rec.principal # th[t1].rec.principal

\* C6: against a consistent directory, for every cache_ttl and every cache
\* content earlier lookups left, when name_to_uid(username) returned u, the
\* uid_to_name(u) that follows finds the entry of that username, and,
\* given a buffer that holds it, returns success with the original username.
C6_RoundTrip ==
    \A t \in Threads :
        (Done(t) /\ th[t].rt_name # <<>>) =>
            /\ th[t].lstatus = NO_ERROR
            /\ th[t].rec.username = th[t].rt_name[1]
            /\ th[t].len > Len(th[t].rt_name[1]) =>
                    /\ th[t].status = NO_ERROR
                    /\ th[t].out.name = th[t].rt_name[1]
            /\ th[t].status = NO_ERROR => th[t].out.name = th[t].rt_name[1]

\* a round trip whose second half is served from an entry that a
\* name_to_uid put into the cache, next to an entry of another user
C6_Witness ==
    \E t \in Threads :
        /\ Done(t) /\ th[t].rt_name = <<S_al>>
        /\ th[t].fresh /\ th[t].status = NO_ERROR /\ th[t].out.name = S_al
        /\ Len(cache[CLASS_USER].head) = 2

\* cache_insert failed to allocate the entry
AllocFailed(t) == th[t].istatus = ERROR_NOT_ENOUGH_MEMORY

NameOps == {"uid_to_name", "gid_to_group"}

\* the name the lookup resolved
ResolvedName(t) ==
    IF K(t) = CLASS_USER THEN th[t].rec.username ELSE th[t].rec.name

\* C7: when the backend query succeeded and cache_insert failed because
\* the allocation failed, the lookup still succeeds and the call returns
\* what it returns for the freshly fetched values (success; for uid_to_name
\* and gid_to_group, given a buffer that holds the name), and both caches
\* hold what they held when the call started.
C7_BestEffort ==
    \A t \in Threads :
        (Done(t) /\ AllocFailed(t)) =>
            /\ th[t].lstatus = NO_ERROR
            /\ GotEntry(t) /\ CarriesAnswer(t)
            /\ Outcome(t) = SuccessWith(t, th[t].rec)
            /\ \/ th[t].status = NO_ERROR
               \/ th[t].op \in NameOps /\ th[t].len <= Len(ResolvedName(t))
            /\ Heads = th[t].pre

\* principal_to_ids returns the ids although the entry could not be cached
C7_Witness ==
    \E t \in Threads :
        /\ Done(t) /\ AllocFailed(t)
        /\ th[t].op = "principal_to_ids" /\ th[t].status = NO_ERROR
        /\ th[t].out.uid = <<1>> /\ th[t].out.gid = <<5>>
        /\ Heads = th[t].pre

\* the status idmap_query_attrs returns when the search has no entry
NotFoundStatus == LdapMapErrorToWin32(LDAP_NO_RESULTS_RETURNED)

\* C8 as the specification states it: a search that returns no entry makes
\* the call return the NotFound status, and no call whose search failed or
\* whose entry lacked a required attribute returns that status.
C8_AsStated ==
    \A t \in Threads :
        Done(t) =>
            /\ NoEntries(t) => th[t].status = NotFoundStatus
            /\ (SearchFail(t) \/ MissingAttr(t)) => th[t].status # NotFoundStatus

\* C9: uid_to_name and gid_to_group whose lookup resolved a name that does
\* not fit len with its terminator return ERROR_BUFFER_OVERFLOW, whether the
\* name came from the cache or from the backend; when they return success
\* the caller's buffer holds the whole name.
C9_BufferTooSmall ==
    \A t \in Threads :
        (Done(t) /\ th[t].op \in NameOps /\ th[t].lstatus = NO_ERROR) =>
            /\ th[t].len < Len(ResolvedName(t)) + 1 =>
                    th[t].status = ERROR_BUFFER_OVERFLOW
            /\ th[t].status = NO_ERROR => th[t].out.name = ResolvedName(t)

\* gid_to_group served from the cache into a buffer one character short
C9_Witness ==
    \E t \in Threads :
        /\ Done(t) /\ th[t].op = "gid_to_group" /\ th[t].fresh
        /\ th[t].len = Len(ResolvedName(t))
        /\ th[t].status = ERROR_BUFFER_OVERFLOW

\* C10: a call issues at most one backend query; a query that fails (the
\* search fails, has no entry, or its entry cannot be used) is that call's
\* status, with no second query and no output written.
C10_OneQuery ==
    \A t \in Threads :
        /\ th[t].nq <= 1
        /\ (Done(t) /\ SearchFail(t)) =>
                th[t].status = LdapMapErrorToWin32(th[t].resp[1].ldap)
        /\ (Done(t) /\ th[t].resp # <<>> /\ th[t].lstatus # NO_ERROR) =>
                /\ th[t].nq = 1
                /\ th[t].status = th[t].lstatus
                /\ th[t].out = NoOutput

\* a refresh of a stale entry whose search failed
C10_Witness ==
    \E t \in Threads :
        /\ Done(t) /\ SearchFail(t) /\ Stale(t) /\ th[t].nq = 1
        /\ th[t].status = LdapMapErrorToWin32(LDAP_SERVER_DOWN)

\* the status idmap_query_attrs returned to the lookup of thread t
QueryStatus(t) == IF Done(t) THEN th[t].lstatus ELSE th[t].status

\* C11: every failure of the backend query (failed search, zero results,
\* missing required attribute) and every failure of ldap_init or
\* ldap_set_option in nfs41_idmap_create is returned as the Win32 code
\* LdapMapErrorToWin32 gives for the LDAP code, never as the LDAP code.
C11_Translated ==
    /\ \A t \in Threads :
          th[t].pc \in {"return", "done"} /\ th[t].resp # <<>> =>
            /\ SearchFail(t) =>
                  /\ QueryStatus(t) = LdapMapErrorToWin32(th[t].resp[1].ldap)
                  /\ QueryStatus(t) # th[t].resp[1].ldap
            /\ NoEntries(t) =>
                  /\ QueryStatus(t) = LdapMapErrorToWin32(LDAP_NO_RESULTS_RETURNED)
                  /\ QueryStatus(t) # LDAP_NO_RESULTS_RETURNED
            /\ MissingAttr(t) =>
                  /\ QueryStatus(t) = LdapMapErrorToWin32(LDAP_NO_SUCH_ATTRIBUTE)
                  /\ QueryStatus(t) # LDAP_NO_SUCH_ATTRIBUTE
    /\ ctx.raw # LDAP_SUCCESS =>
          /\ ctx.status = LdapMapErrorToWin32(ctx.raw)
          /\ ctx.status # ctx.raw

\* ldap_set_option failed with LDAP_SERVER_DOWN on the opened connection and
\* nfs41_idmap_create returned ERROR_BAD_NET_RESP
C11_Witness ==
    /\ ctx.pc = "returned"
    /\ ctx.raw = LDAP_SERVER_DOWN
    /\ ctx.ldap = "unbound"
    /\ ctx.status = ERROR_BAD_NET_RESP

\* C12: when the configuration file cannot be opened, config_init succeeds
\* and every option holds the default of the option table; when
\* nfs41_idmap_create then fails, it is because of ldap_init or
\* ldap_set_option.
C12_MissingFile ==
    ~ctx.file.exists /\ ctx.context = "allocated" =>
        /\ config = [hostname |-> <<"l", "o", "c", "a", "l", "h", "o", "s", "t">>,
                     port |-> 389, version |-> 3, timeout |-> 0,
                     base |-> <<"c", "n", "=", "l", "o", "c", "a", "l", "h", "o", "s", "t">>,
                     classes |-> DefaultConfig(6000).classes,
                     attributes |-> DefaultConfig(6000).attributes,
                     cache_ttl |-> 6000]
        /\ ctx.pc = "ldap_init" => ctx.status = NO_ERROR
        /\ ctx.status # NO_ERROR => ctx.raw # LDAP_SUCCESS

\* without a file, nfs41_idmap_create has returned the context to its caller
C12_Witness ==
    /\ ~ctx.file.exists
    /\ ctx.pc = "returned" /\ ctx.status = NO_ERROR
    /\ ctx.context_out /\ ctx.context = "allocated"
    /\ config.cache_ttl = 6000

\* the line config_load read last
LastLine == ctx.file.lines[ctx.line]

\* C13: for a recognized key k, the lines `k = v`, `k = "v"` and
\* `k = v # c` all leave v in the field of k and loading goes on; a line
\* without `=`, with an empty key, with no value or with an unterminated
\* quote makes config_load stop with ERROR_INVALID_PARAMETER, and
\* nfs41_idmap_create fails.
C13_LineGrammar ==
    ctx.line >= 1 =>
        \A k \in StrKeys : \A v \in StrValues :
            /\ LastLine \in GoodLines(k, v) /\ ctx.context = "allocated" =>
                  /\ ctx.raw = LDAP_SUCCESS => ctx.status = NO_ERROR
                  /\ IF k = K_base THEN config.base = v
                     ELSE config.attributes[ATTR_USER_NAME] = v
            /\ LastLine \in BadLines(k, v) =>
                  /\ ctx.status = ERROR_INVALID_PARAMETER
                  /\ ctx.pc \in {"out_err_free", "returned"}
                  /\ ~ctx.context_out

\* a file whose first line, quoted, was applied and whose second line, with
\* an unterminated quote, stopped the loading
C13_Witness ==
    /\ ctx.line = 2
    /\ ctx.file.lines[1] = Line_quoted(K_username, <<"u", "i", "d">>)
    /\ ctx.file.lines[2] = Line_noquote(K_base, <<"a", " ", "b">>)
    /\ ctx.pc = "out_err_free"
    /\ ctx.status = ERROR_INVALID_PARAMETER
    /\ config.attributes[ATTR_USER_NAME] = <<"u", "i", "d">>

\* v is an unsigned decimal integer, written without sign or white space,
\* that fits in 32 bits
UnsignedDecimal32(v) ==
    LET max == <<"4", "2", "9", "4", "9", "6", "7", "2", "9", "5">>
        first == {i \in 1..Len(v) : v[i] # max[i]}
    IN  /\ v # <<>>
        /\ \A i \in 1..Len(v) : v[i] \in DigitChars
        /\ \/ Len(v) < Len(max)
           \/ /\ Len(v) = Len(max)
              /\ \/ first = {}
                 \/ LET i == CHOOSE j \in first : \A h \in first : j <= h
                    IN  DigitVal(v[i]) < DigitVal(max[i])

\* config_load stopped at the last line because its value did not parse
NotANumber ==
    /\ ctx.raw = LDAP_SUCCESS
    /\ ctx.status = ERROR_INVALID_PARAMETER
    /\ ctx.pc \in {"out_err_free", "returned"}

\* C14 as the specification states it: parse_uint accepts a string exactly
\* when the whole string is an unsigned decimal integer that fits in 32
\* bits, and then yields its value. Here the string is the value of a
\* cache_ttl line of the configuration file.
C14_AsStated ==
    \A v \in IntTexts :
        ctx.line >= 1 /\ LastLine = Line_quoted(K_ttl, v) =>
            /\ ~NotANumber <=> UnsignedDecimal32(v)
            /\ ~NotANumber /\ ctx.context = "allocated" =>
                  FormatUInt(config.cache_ttl) = v

\* the last line read is one of the configuration errors: a line outside the
\* grammar, an unrecognized key, an integer that does not parse, a string
\* longer than its field
ConfigError ==
    /\ ctx.line >= 1
    /\ LastLine \in
          UNION {BadLines(k, v) : k \in StrKeys, v \in StrValues}
          \cup {Line_plain(K_foo, <<"b", "a", "r">>),
                Line_quoted(K_ttl, <<"1", "2", "3", "a", "b", "c">>), Line_quoted(K_ttl, <<"a", "b", "c">>),
                Line_quoted(K_ttl, <<"4", "2", "9", "4", "9", "6", "7", "2", "9", "6">>),
                Line_plain(K_username, Rep("a", NAME_LEN))}

\* C15: after a configuration error in an existing file, and after a failure
\* of ldap_init or ldap_set_option, nfs41_idmap_create goes to out_err_free
\* and returns a non-zero status, no context in *context_out, the context
\* freed, both caches empty, and the connection, if opened, unbound.
C15_FailedCreate ==
    ConfigError \/ ctx.raw # LDAP_SUCCESS =>
        /\ ctx.pc \in {"out_err_free", "returned"}
        /\ ctx.status # NO_ERROR
        /\ ~ctx.context_out
        /\ ConfigError => ctx.ldap = "null"
        /\ ctx.pc = "returned" =>
              /\ ctx.context = "freed"
              /\ ctx.ldap # "open"
              /\ \A k \in Klasses : cache[k].head = <<>>

\* a value of NAME_LEN characters for ldap_attr_username: the create call
\* has returned ERROR_BUFFER_OVERFLOW and freed the context
C15_Witness ==
    /\ ctx.line = 1
    /\ LastLine = Line_plain(K_username, Rep("a", NAME_LEN))
    /\ ctx.pc = "returned"
    /\ ctx.status = ERROR_BUFFER_OVERFLOW
    /\ ctx.context = "freed"

\* principal without everything from its first '@'
StripDomain(principal) ==
    LET Upto(at) == IF at = 0 THEN principal ELSE SubSeq(principal, 1, at - 1)
    IN  Upto(strchr(principal, 1, "@"))

\* C16 as the specification states it, for the build with the local account
\* database: principal_to_ids(P) succeeds, with the uid and gid of the
\* account named by P without its domain, exactly when that account exists
\* and <account name>@<localdomain_name> is P; otherwise it returns
\* ERROR_NOT_FOUND.
C16_AsStated ==
    \A t \in Threads :
        Done(t) /\ th[t].op = "principal_to_ids" =>
            LET P == th[t].lookup.value
                found == {a \in Accounts : a.name = StripDomain(P)}
                same == {a \in found : a.name \o <<"@">> \o localdomain_name = P}
            IN  IF same # {}
                THEN \E a \in same :
                        /\ th[t].status = NO_ERROR
                        /\ th[t].out.uid = <<a.uid>>
                        /\ th[t].out.gid = <<a.gid>>
                ELSE th[t].status = ERROR_NOT_FOUND

\* thread t is in cache_lookup between AcquireSRWLockShared and
\* ReleaseSRWLockShared
InLookup(t) == th[t].pc \in {"lookup_copy", "lookup_release"}

\* thread t is in cache_insert between AcquireSRWLockExclusive and
\* ReleaseSRWLockExclusive
InInsert(t) == th[t].pc \in {"insert_copy", "insert_release"}

\* C17: while a cache_insert on a cache is between acquiring and releasing
\* the lock, no other thread is inside a cache_insert or a cache_lookup on
\* that cache (several cache_lookup calls may be inside at once: the
\* witness).
C17_InsertExcludes ==
    \A t \in Threads : \A u \in Threads \ {t} :
        InInsert(t) /\ K(u) = K(t) => ~InInsert(u) /\ ~InLookup(u)

\* two threads inside cache_lookup on the user cache at the same time, both
\* holding the lock shared
C17_Witness ==
    /\ InLookup(1) /\ InLookup(2)
    /\ K(1) = CLASS_USER /\ K(2) = CLASS_USER
    /\ cache[CLASS_USER].lock.shared = {1, 2}

\* the cache the other kind of operation works on
OtherCache(op) ==
    IF op \in {"name_to_uid", "name_to_ids", "uid_to_name", "principal_to_ids"}
    THEN CLASS_GROUP ELSE CLASS_USER

\* C18: a step of a user operation leaves the group cache, its lock and its
\* list, as it was, and a step of a group operation leaves the user cache as
\* it was; and while one thread is inside cache_insert on one cache, the
\* lock of the other cache lets a thread arriving at cache_lookup or
\* cache_insert in.
C18_Independent ==
    /\ [][\A t \in Threads :
            th'[t] # th[t] =>
                cache'[OtherCache(th'[t].op)] = cache[OtherCache(th'[t].op)]]_vars
    /\ [](\A t \in Threads : \A u \in Threads \ {t} :
            InInsert(t) /\ OtherCache(th[u].op) # OtherCache(th[t].op) =>
                /\ th[u].pc = "cache_lookup" =>
                      AcquireSRWLockShared(cache[1 - OtherCache(th[u].op)].lock, u)
                /\ th[u].pc = "cache_insert" =>
                      AcquireSRWLockExclusive(cache[1 - OtherCache(th[u].op)].lock, u))

\* thread 1 inside cache_insert on the user cache while thread 2 is inside
\* cache_insert on the group cache
C18_Witness ==
    /\ InInsert(1) /\ InInsert(2)
    /\ cache[CLASS_USER].lock.exclusive = {1}
    /\ cache[CLASS_GROUP].lock.exclusive = {2}

\* thread t is inside ldap_search_stA, called by idmap_query_attrs
InQuery(t) == th[t].pc = "ldap_search"

\* C19: a thread inside the backend query holds no lock of either cache,
\* and it does not keep another thread that finished its cache_lookup from
\* going on to its own query (two threads inside the query at once: the
\* witness).
C19_QueryUnlocked ==
    \A t \in Threads :
        InQuery(t) =>
            /\ \A k \in Klasses :
                  t \notin cache[k].lock.shared \cup cache[k].lock.exclusive
            /\ \A u \in Threads \ {t} :
                  th[u].pc = "expiry" => ENABLED Expiry(u)

\* both threads inside ldap_search_stA on the one connection, after both
\* missed the cache
C19_Witness ==
    /\ InQuery(1) /\ InQuery(2)
    /\ th[1].cached = <<>> /\ th[2].cached = <<>>

\* the step is the nfs41_idmap_free of a context
Freeing == ctx.context = "allocated" /\ ctx'.context = "freed"

\* C20: no step of a facade operation makes a cache shorter; the only step
\* that does is nfs41_idmap_free, whose cache_cleanup empties both caches.
C20_NoRemoval ==
    [][/\ ~Freeing =>
            \A k \in Klasses : Len(cache'[k].head) >= Len(cache[k].head)
       /\ Freeing => \A k \in Klasses : cache'[k].head = <<>>]_vars

\* the context has been freed by its owner and the user cache, which held an
\* entry when the last call began, is empty
C20_Witness ==
    /\ ctx.context = "freed" /\ ctx.context_out
    /\ Done(1) /\ th[1].pre[CLASS_USER] # <<>>
    /\ cache[CLASS_USER].head = <<>>


\* the entries a successful lookup of class klass can hand to cache_insert:
\* the parse of one directory entry that has every required attribute,
\* stamped with the time of that lookup
LookupResults ==
    [klass \in Klasses |->
        LET Parse(e, time) ==
                IF klass = CLASS_USER
                THEN ParseUser(UninitEntry(klass), e, 0, time)
                ELSE ParseGroup(UninitEntry(klass), e, 0, time)
            Usable == {e \in IF klass = CLASS_USER THEN UserEntries
                                                   ELSE GroupEntries :
                          \A i \in Required(klass) : e[i] # <<>>}
        IN  {Parse(e, time).rec :
                e \in {u \in Usable : Parse(u, 0).status = NO_ERROR},
                time \in 0..MaxTime}]

\* the entry the directory returned has its required attributes and the
\* parse of one of them failed
ParseFailed(t) ==
    GotEntry(t) /\ ~MissingAttr(t) /\ th[t].lstatus # NO_ERROR

\* C21: every entry stored in a cache (outside a cache_insert that is
\* writing it under the exclusive lock) holds the complete field set of one
\* successful backend lookup: user name, principal or the empty string, uid,
\* gid and time stamp of one parsed directory entry for a user, name, gid
\* and time stamp for a group, never fields of two lookups; and a lookup
\* whose parse of an attribute failed leaves both caches as they were.
C21_OneLookupPerEntry ==
    /\ \A k \in Klasses :
          cache[k].lock.exclusive = {} =>
              \A i \in 1..Len(cache[k].head) :
                  cache[k].head[i] \in LookupResults[k]
    /\ \A t \in Threads :
          (Done(t) /\ ParseFailed(t)) => Heads = th[t].pre

\* a stale entry of one user overwritten with the record of another user:
\* the stored entry holds the new name, principal, uid, gid and time
C21_Witness ==
    \E t \in Threads :
        /\ Done(t) /\ Stale(t) /\ th[t].lstatus = NO_ERROR
        /\ th[t].cached[1].username # th[t].rec.username
        /\ th[t].cached[1].principal # th[t].rec.principal
        /\ th[t].cached[1].uid # th[t].rec.uid
        /\ th[t].cached[1].gid # th[t].rec.gid
        /\ th[t].cached[1].last_updated # th[t].rec.last_updated
        /\ cache[CLASS_USER].head = <<th[t].rec>>


\* the place, in the list the call found when it started, of the entry
\* its key matches (0 when there is none)
MatchedAt(t) == list_search(th[t].pre[K(t)], th[t].lookup)

\* C22: a lookup that finds a stale entry under its key and whose backend
\* query succeeds, with no other operation on that cache meanwhile, leaves
\* the number of entries of both caches as it was; the entry that matched
\* the key, at its place in the list, holds the fields the backend returned,
\* every other entry is untouched, and last_updated is the clock reading
\* taken when the query returned.
C22_RefreshInPlace ==
    /\ [][\A t \in Threads :
            (th[t].pc = "ldap_search" /\ th'[t].pc = "cache_insert") =>
                th'[t].rec.last_updated = now]_vars
    /\ [](\A t \in Threads :
            (Done(t) /\ Stale(t) /\ th[t].lstatus = NO_ERROR) =>
                /\ CarriesAnswer(t)
                /\ th[t].at <= th[t].rec.last_updated
                /\ \A k \in Klasses : Len(Heads[k]) = Len(th[t].pre[k])
                /\ Heads = [th[t].pre EXCEPT ![K(t)][MatchedAt(t)] = th[t].rec])

\* the stale entry is the second of two, and the refresh gives it a later
\* time stamp and another gid
C22_Witness ==
    \E t \in Threads :
        /\ Done(t) /\ Stale(t) /\ th[t].lstatus = NO_ERROR
        /\ MatchedAt(t) = 2
        /\ th[t].rec.last_updated > th[t].cached[1].last_updated
        /\ th[t].rec.gid # th[t].cached[1].gid
        /\ Heads[K(t)][2] = th[t].rec


\* the backend query of the call succeeded
BackendSuccess(t) == th[t].resp # <<>> /\ th[t].lstatus = NO_ERROR

\* the cache of the call holds the entry the call fetched, written over the
\* entry its key matched or added at the head, and nothing else changed
Stored(t) ==
    Heads = IF MatchedAt(t) # 0
            THEN [th[t].pre EXCEPT ![K(t)][MatchedAt(t)] = th[t].rec]
            ELSE [th[t].pre EXCEPT ![K(t)] = <<th[t].rec>> \o @]

\* C23 as the specification states it: a successful backend lookup inserts
\* or refreshes a cache entry exactly when cache_ttl is not 0, and with
\* cache_ttl = 0 both caches are always empty.
C23_AsStated ==
    /\ \A t \in Threads :
          (Done(t) /\ BackendSuccess(t)) => (Stored(t) <=> config.cache_ttl # 0)
    /\ config.cache_ttl = 0 => Heads = [k \in Klasses |-> <<>>]

\* C23, amended: a successful backend lookup calls cache_insert exactly when
\* cache_ttl is not 0 (positive or negative); the entry is inserted or
\* refreshed unless cache_insert has to allocate a new entry and the
\* allocation fails, in which case, as with cache_ttl = 0, both caches stay
\* as they were; with cache_ttl = 0 both caches are empty in every reachable
\* state.
C23_TtlGate ==
    /\ \A t \in Threads :
          (Done(t) /\ BackendSuccess(t)) =>
              /\ Stored(t) <=> (config.cache_ttl # 0 /\ ~AllocFailed(t))
              /\ AllocFailed(t) => (config.cache_ttl # 0 /\ MatchedAt(t) = 0)
              /\ ~Stored(t) => Heads = th[t].pre
    /\ \A t \in Threads :
          th[t].pc \in {"cache_insert", "insert_copy", "insert_release"} =>
              (th[t].status = NO_ERROR /\ config.cache_ttl # 0)
    /\ config.cache_ttl = 0 => Heads = [k \in Klasses |-> <<>>]

\* with a negative cache_ttl a second lookup of the key queried again and
\* refreshed the entry the first one had inserted
C23_Witness ==
    \E t \in Threads :
        /\ Done(t) /\ BackendSuccess(t) /\ config.cache_ttl < 0
        /\ MatchedAt(t) # 0 /\ Stored(t) /\ Heads # th[t].pre


\* the directory answered with a user entry that has a user name that fits,
\* a uid and a gid written as unsigned decimal numbers, and no principal
NoPrincipal(t) ==
    /\ GotEntry(t) /\ K(t) = CLASS_USER
    /\ LET e == th[t].resp[1].entries[1]
       IN  /\ e[ATTR_PRINCIPAL] = <<>>
           /\ e[ATTR_USER_NAME] # <<>> /\ Len(e[ATTR_USER_NAME][1]) < VAL_LEN
           /\ e[ATTR_UID] # <<>> /\ UnsignedDecimal32(e[ATTR_UID][1])
           /\ e[ATTR_GID] # <<>> /\ UnsignedDecimal32(e[ATTR_GID][1])

\* C24: when the directory entry of a user has a user name, a uid and a gid
\* but no principal attribute, name_to_uid, name_to_ids and uid_to_name
\* succeed with the values of that entry (uid_to_name given a buffer that
\* holds the name), and the entry put into the cache has the empty string
\* as its principal.
C24_PrincipalOptional ==
    \A t \in Threads :
        (/\ Done(t) /\ NoPrincipal(t)
         /\ th[t].op \in {"name_to_uid", "name_to_ids", "uid_to_name"}) =>
            /\ th[t].lstatus = NO_ERROR
            /\ CarriesAnswer(t)
            /\ th[t].rec.principal = <<>>
            /\ Outcome(t) = SuccessWith(t, th[t].rec)
            /\ (th[t].op = "uid_to_name" => th[t].len > Len(th[t].rec.username))
                  => th[t].status = NO_ERROR
            /\ (config.cache_ttl # 0 /\ ~AllocFailed(t)) => Stored(t)

\* uid_to_name of a user without principal: the name is returned and the
\* entry at the head of the user cache has an empty principal
C24_Witness ==
    \E t \in Threads :
        /\ Done(t) /\ NoPrincipal(t) /\ th[t].op = "uid_to_name"
        /\ th[t].status = NO_ERROR /\ th[t].out.name = S_bo
        /\ cache[CLASS_USER].head # <<>>
        /\ cache[CLASS_USER].head[1].username = S_bo
        /\ cache[CLASS_USER].head[1].principal = <<>>


\* the value of lookup is the field of rec that the lookup's attribute names
IsKeyOf(lookup, rec) ==
    CASE lookup.attr = ATTR_USER_NAME -> rec.username = lookup.value
      [] lookup.attr = ATTR_UID -> rec.uid = lookup.value
      [] lookup.attr = ATTR_PRINCIPAL -> rec.principal = lookup.value
      [] lookup.attr = ATTR_GROUP_NAME -> rec.name = lookup.value
      [] OTHER -> rec.gid = lookup.value

\* the first entry, in the list the call found when it started, that has
\* the call's key in the field the key is for (0 when there is none)
HeldAt(t) ==
    LET head == th[t].pre[K(t)]
        held == {i \in 1..Len(head) : IsKeyOf(th[t].lookup, head[i])}
    IN  IF held = {} THEN 0 ELSE CHOOSE i \in held : \A j \in held : i <= j

\* C25: with cache_ttl = T > 0 and a consistent directory, the entry a
\* successful lookup stored is the entry found under every other key of the
\* same user or group (the name, the uid and the principal of a user, the
\* name and the gid of a group) when the next call looks that key up; and a
\* call that finds an entry holding its key, of age below T, issues no
\* backend query and answers from that entry.  So uid_to_name(u) after
\* name_to_uid(name) returned u, and gid_to_group(g) after group_to_gid
\* returned g, are answered from the cache while the entry is fresh.
C25_EveryKey ==
    /\ [][\A t \in Threads :
            (/\ th[t].pc = "done" /\ th'[t].pc = "cache_lookup"
             /\ config.cache_ttl > 0
             /\ BackendSuccess(t) /\ Stored(t)
             /\ th'[t].lookup.klass = K(t)
             /\ th'[t].lookup.attr # th[t].lookup.attr
             /\ IsKeyOf(th'[t].lookup, th[t].rec)) =>
                LET i == list_search(cache[K(t)].head, th'[t].lookup)
                IN  i # 0 /\ cache[K(t)].head[i] = th[t].rec]_vars
    /\ [](\A t \in Threads :
            (/\ Done(t) /\ config.cache_ttl > 0 /\ HeldAt(t) # 0
             /\ th[t].at - th[t].pre[K(t)][HeldAt(t)].last_updated
                    < config.cache_ttl) =>
                /\ th[t].nq = 0
                /\ Outcome(t) = SuccessWith(t, th[t].pre[K(t)][HeldAt(t)]))

\* uid_to_name(1), called after name_to_uid("al") returned 1, answered
\* without a query from the one entry of the user cache, while the group
\* cache holds the entry of gid 5
C25_Witness ==
    /\ th[1].pc = "done" /\ th[1].op = "uid_to_name" /\ th[1].rt_name = <<S_al>>
    /\ th[1].nq = 0 /\ th[1].status = NO_ERROR /\ th[1].out.name = S_al
    /\ Len(cache[CLASS_USER].head) = 1
    /\ Len(cache[CLASS_GROUP].head) = 1
    /\ cache[CLASS_GROUP].head[1].gid = 5


\* the previous call of the thread looked up the same key with the same
\* operation, succeeded, and the entry it returned is in the cache
RepeatOfStored(t) ==
    /\ th[t].prev_rec # <<>>
    /\ \E i \in 1..Len(th[t].pre[K(t)]) : th[t].pre[K(t)][i] = th[t].prev_rec[1]

\* C26 as the specification states it, for the repeated lookup: a lookup
\* of a key whose previous lookup succeeded and left its entry in the cache
\* adds no further entry, whatever record the backend returns.
C26_AsStated ==
    \A t \in Threads :
        (Done(t) /\ RepeatOfStored(t)) =>
            Len(Heads[K(t)]) <= Len(th[t].pre[K(t)])


\* C27 as the specification states it: a principal_to_ids call, whatever
\* its key, is never served from a cached entry whose principal is empty,
\* and when every cached user entry has an empty principal the call queries
\* the backend.
C27_AsStated ==
    \A t \in Threads :
        (Done(t) /\ th[t].op = "principal_to_ids") =>
            /\ th[t].cached # <<>> => th[t].cached[1].principal # <<>>
            /\ (\A i \in 1..Len(th[t].pre[CLASS_USER]) :
                    th[t].pre[CLASS_USER][i].principal = <<>>) => th[t].nq = 1


\* C28 as the specification states it: a call that returns a status other
\* than success leaves both caches as they were when it started.
C28_AsStated ==
    \A t \in Threads :
        (Done(t) /\ th[t].status # NO_ERROR) => Heads = th[t].pre

\* C28, amended: a call whose lookup fails (the filter does not fit, the
\* query fails, it has no entry, a required attribute is missing, an
\* attribute is too long, the uid or gid does not parse) leaves both caches
\* exactly as they were when it started; a uid_to_name or gid_to_group call
\* that fails only because the caller's buffer is too small for the name
\* returns ERROR_BUFFER_OVERFLOW after its lookup succeeded, and when that
\* lookup queried the backend with cache_ttl not 0 the cache holds the
\* entry it inserted or refreshed.
C28_FailedLookup ==
    \A t \in Threads :
        (Done(t) /\ th[t].status # NO_ERROR) =>
            IF th[t].lstatus # NO_ERROR
            THEN /\ Heads = th[t].pre
                 /\ th[t].status = th[t].lstatus
            ELSE /\ th[t].op \in NameOps
                 /\ th[t].status = ERROR_BUFFER_OVERFLOW
                 /\ th[t].len <= Len(ResolvedName(t))
                 /\ IF BackendSuccess(t) /\ config.cache_ttl # 0 /\ ~AllocFailed(t)
                    THEN Stored(t)
                    ELSE Heads = th[t].pre

\* the refresh of a stale entry returned a user name that is too long: the
\* call fails and the stale entry is still what the cache holds
C28_Witness ==
    \E t \in Threads :
        /\ Done(t) /\ Stale(t) /\ ParseFailed(t)
        /\ th[t].status = ERROR_BUFFER_OVERFLOW
        /\ th[t].lstatus = ERROR_BUFFER_OVERFLOW
        /\ Heads = th[t].pre
        /\ cache[CLASS_USER].head = <<th[t].cached[1]>>


\* C29: a lookup answered from a fresh entry changes nothing in either
\* cache, last_updated included, and returns the entry as it is stored; an
\* entry found by a lookup is taken as fresh exactly when less than
\* cache_ttl seconds passed since its last_updated; and when a lookup
\* repeats one that left its entry in the cache, the entry it finds still
\* has the last_updated the earlier lookup returned, whether that lookup
\* refreshed the entry or was itself answered from it.  So the entry is
\* stale cache_ttl seconds after its last refresh, however often it is hit.
C29_NoSliding ==
    \A t \in Threads :
        /\ (Done(t) /\ th[t].fresh) =>
                /\ Heads = th[t].pre
                /\ th[t].nq = 0
                /\ th[t].rec = th[t].cached[1]
                /\ th[t].rec = th[t].pre[K(t)][HeldAt(t)]
        /\ (Done(t) /\ th[t].cached # <<>>) =>
                (th[t].fresh <=>
                    th[t].at - th[t].cached[1].last_updated < config.cache_ttl)
        /\ (Done(t) /\ th[t].prev_rec # <<>> /\ th[t].kept) =>
                /\ th[t].cached # <<>>
                /\ th[t].cached[1].last_updated = th[t].prev_rec[1].last_updated

\* a repeated lookup answered a second after the refresh, inside the time
\* to live: the stored entry still has the time of the refresh
C29_Witness ==
    \E t \in Threads :
        /\ Done(t) /\ th[t].fresh /\ th[t].prev_rec # <<>>
        /\ th[t].at = th[t].cached[1].last_updated + 1
        /\ cache[K(t)].head[1].last_updated = th[t].at - 1
        /\ now = th[t].cached[1].last_updated + config.cache_ttl


\* two entries of one list are entries of one user, or of one group: they
\* share the name, the number, or a principal
SameIdentity(k, a, b) ==
    IF k = CLASS_USER
    THEN \/ a.username = b.username
         \/ a.uid = b.uid
         \/ a.principal # <<>> /\ a.principal = b.principal
    ELSE a.name = b.name \/ a.gid = b.gid

\* C30: with cache_ttl > 0 and a fixed directory in which names, uids and
\* principals are one-to-one and every record carries the key it was looked
\* up by, no interleaving of concurrent lookups, of the same key or of
\* different keys of one user or group, leaves two entries of one user in
\* the user cache or two entries of one group in the group cache.
C30_NoDuplicates ==
    \A k \in Klasses :
        \A i, j \in 1..Len(cache[k].head) :
            i # j => ~SameIdentity(k, cache[k].head[i], cache[k].head[j])

\* both threads missed the empty user cache, one looking al up by name and
\* the other by uid, both queried the directory and both called
\* cache_insert: the cache holds one entry
C30_Witness ==
    /\ Done(1) /\ Done(2)
    /\ th[1].op = "name_to_uid" /\ th[2].op = "uid_to_name"
    /\ th[1].pre[CLASS_USER] = <<>> /\ th[2].pre[CLASS_USER] = <<>>
    /\ th[1].cached = <<>> /\ th[2].cached = <<>>
    /\ BackendSuccess(1) /\ BackendSuccess(2)
    /\ ~AllocFailed(1) /\ ~AllocFailed(2)
    /\ Len(cache[CLASS_USER].head) = 1


\* thread t is inside a facade call
Busy(t) == th[t].pc \notin {"idle", "done"}

\* the cache locks thread t holds
Held(t) ==
    {k \in Klasses : t \in cache[k].lock.shared \cup cache[k].lock.exclusive}

\* C31: a thread holds a cache lock only between the acquire and the
\* release inside cache_lookup (shared) or cache_insert (exclusive), on the
\* cache of its own lookup: never after either returned, on a match, a miss
\* or a failed allocation, and never while it is in the backend query; a
\* thread inside a call that is not waiting for the directory can take a
\* step, or the thread holding the lock it waits for can; and under fair
\* scheduling a call that is not waiting for the directory goes on until it
\* returns or waits for the directory, so that every call returns once its
\* backend query, if it makes one, has returned.
C31_LocksReleased ==
    /\ [](\A t \in Threads :
            /\ t \in cache[K(t)].lock.shared =>
                    th[t].pc \in {"lookup_copy", "lookup_release"}
            /\ t \in cache[K(t)].lock.exclusive =>
                    th[t].pc \in {"insert_copy", "insert_release"}
            /\ Held(t) \subseteq {K(t)}
            /\ th[t].pc \in {"idle", "done", "expiry", "ldap_search",
                             "cache_insert", "cache_lookup", "return"} =>
                    Held(t) = {}
            /\ (Busy(t) /\ th[t].pc # "ldap_search") =>
                    \/ ENABLED Inner(t)
                    \/ \E u \in Threads \ {t} :
                          K(t) \in Held(u) /\ ENABLED Inner(u))
    /\ \A t \in Threads :
          (Busy(t) /\ th[t].pc # "ldap_search")
              ~> (Done(t) \/ th[t].pc = "ldap_search")

\* the first thread is inside cache_insert with the exclusive lock, its
\* allocation having failed, and the second waits for the lock in
\* cache_lookup
C31_Witness ==
    /\ th[1].pc = "insert_release" /\ AllocFailed(1)
    /\ th[2].pc = "cache_lookup" /\ K(2) = K(1)
    /\ ~ENABLED Inner(2)


\* C32 as the specification states it: what parse_uint makes of the uid
\* and gid strings of a lookup does not depend on the parse_uint calls of
\* earlier lookups; the lookup accepts them exactly when parse_uint accepts
\* them on a thread that has parsed nothing before, and with the same
\* values.  In particular 4294967295 is accepted after an earlier uid was
\* rejected for overflow, as it is before.
C32_AsStated ==
    \A t \in Threads :
        (Done(t) /\ GotEntry(t) /\ NoPrincipal(t)) =>
            LET e == th[t].resp[1].entries[1]
                uid == parse_uint(e[ATTR_UID][1], 0)
                gid == parse_uint(e[ATTR_GID][1], 0)
            IN  /\ th[t].lstatus = NO_ERROR <=> (uid.ok /\ gid.ok)
                /\ th[t].lstatus = NO_ERROR =>
                      (th[t].rec.uid = uid.id /\ th[t].rec.gid = gid.id)

=============================================================================
